---- MODULE Spec2Model ----
(***************************************************************************)
(* K-Stream admin panel: the list screens (dramas, genres, actors, users)  *)
(* as a state machine over the React component state, the URL query        *)
(* string and the requests in flight.                                      *)
(*                                                                         *)
(* JavaScript values that may be undefined are sequences of length at most *)
(* one: <<>> is undefined, <<v>> is the value v.                           *)
(***************************************************************************)
EXTENDS Integers, Sequences, FiniteSets, Bags, TLC

VARIABLES
    screen,        \* which list screen is mounted
    searchParams,  \* the URL query string: page (raw text), search, status, genre, sort
    status,        \* DramaList filter state
    genreId,       \* DramaList filter state
    sort,          \* DramaList filter state
    list,          \* the displayed rows (genres / actors / users / dramas)
    pageTotal,     \* the total used for pagination (not on the drama list)
    isLoading,     \* the loading flag
    inflight,      \* bag of requests awaiting their response
    toast,         \* the latest notification ("" before the first)
    last,          \* the last step: its kind, its input, the data it received
    events,        \* the number of user steps so far
    nav,           \* the browser history behind the current entry
    pg,            \* the pagination arithmetic applied to one drawn input
    lg,            \* the login screen: form, requests in flight, auth store, route
    dg,            \* the form dialog of the genres and actors screens
    em,            \* episode management: seasons, episodes, dialog, requests, server
    df,            \* the drama form: cast selection and submission
    du,            \* an episode duration taken through the form and back
    ta             \* the drama form's actor typeahead: text, page, timers, requests

listVars == <<screen, searchParams, status, genreId, sort, list, pageTotal,
              isLoading, inflight, toast, last, events, nav>>
vars == <<listVars, pg, lg, dg, em, df, du, ta>>

----------------------------------------------------------------------------
(* Bounds of the model *)

MaxPage == 2
MaxInflight == 2
MaxEvents == 2
FewRows == 2
MaxTotal == 35
MaxPageArith == 5
MaxAttempts == 3
MaxLogins == 2

(* Program constant *)
limit == 10

Screens == {"dramas", "genres", "actors", "users"}
Searches == {"", "a"}
Statuses == {"", "ongoing"}
GenreIds == {"", "g1"}
Sorts == {"popular", "rating"}

----------------------------------------------------------------------------
(* JavaScript values *)

Undefined == <<>>
Some(v) == <<v>>

\* String(n) for the page numbers the model reaches
Digits == <<"0", "1", "2", "3", "4", "5", "6", "7", "8", "9">>
String(n) == IF n < 0 THEN "-" \o Digits[1 - n] ELSE Digits[n + 1]

\* searchParams.get('page') of a URL without the parameter
NoParam == "null"

\* x || fallback, for a number or undefined x
OrNumber(x, fallback) ==
    IF x = Undefined \/ x = Some(0) THEN fallback ELSE x[1]

\* x || fallback, for an array or undefined x
OrArray(x, fallback) ==
    IF x = Undefined THEN fallback ELSE x[1]

\* x || fallback, for a string or null x
OrString(x, fallback) ==
    IF x = NoParam \/ x = "" THEN fallback ELSE x

\* Number(text): Some(n) for a decimal numeral, Undefined for NaN;
\* Number(null) and Number("") are 0
Number(text) ==
    IF text = NoParam \/ text = "" THEN Some(0)
    ELSE IF \E n \in -9..9 : String(n) = text
         THEN Some(CHOOSE n \in -9..9 : String(n) = text)
         ELSE Undefined

\* Number(searchParams.get('page')) || 1
PageOf(text) ==
    LET n == Number(text)
    IN  IF n = Undefined \/ n = Some(0) THEN 1 ELSE n[1]

\* Math.ceil(a / b) for a >= 0, b > 0
CeilDivFloor(a, b) == a \div b
CeilDiv(a, b) == (a + b - 1) \div b

----------------------------------------------------------------------------
(* Derived values of a render *)

page == PageOf(searchParams.page)
search == OrString(searchParams.search, "")

\* Math.ceil(pageTotal / limit); Undefined is NaN
totalPages ==
    IF pageTotal = Undefined THEN Undefined ELSE Some(CeilDiv(pageTotal[1], limit))

\* disabled={page >= totalPages || pageTotal === 0}
NextDisabledAt(p, total) == p >= CeilDiv(total, limit) \/ total = 0

\* the Next button of the screen
NextDisabledByTotal == pageTotal # Undefined /\ NextDisabledAt(page, pageTotal[1])
NextDisabled ==
    IF screen = "dramas"
    THEN list = Undefined \/ Len(list[1]) < limit
    ELSE pageTotal # Undefined /\ NextDisabledAt(page, pageTotal[1])

\* disabled={page <= 1}
PrevDisabled == page <= 1

\* the query a fetch of the current render sends
Query ==
    [page |-> page, search |-> search,
     status |-> IF screen = "dramas" THEN status ELSE "",
     genre |-> IF screen = "dramas" THEN genreId ELSE "",
     sort |-> IF screen = "dramas" THEN sort ELSE ""]

\* the dependency list of the fetching effect
DepsPageSearch == <<page, search>>
Deps ==
    IF screen = "dramas"
    THEN <<page, search, status, genreId, sort>>
    ELSE <<page, search>>

\* a render of the users table reads users.length of undefined
Crashed == list = Undefined /\ ~isLoading

----------------------------------------------------------------------------
(* The server's answers *)

Rows(q, n) == [i \in 1..n |-> [q |-> q, i |-> i]]

RowCounts == {0, FewRows, limit}
Totals == {0, limit + 1}

\* the unwrapped payload of a list response to query q
DataChoices(q) ==
    { [shape |-> "array", rows |-> Rows(q, n), items |-> Undefined, total |-> Undefined]
        : n \in RowCounts }
    \cup
    { [shape |-> "object", rows |-> <<>>, items |-> Some(Rows(q, n)), total |-> Some(k)]
        : n \in RowCounts, k \in Totals }
    \cup
    { [shape |-> "object", rows |-> <<>>, items |-> Undefined, total |-> Undefined] }

NoData == [shape |-> "none", rows |-> <<>>, items |-> Undefined, total |-> Undefined]

\* data.items and data.total: an array has neither property
ItemsOf(data) == IF data.shape = "array" THEN Undefined ELSE data.items
TotalOf(data) == IF data.shape = "array" THEN Undefined ELSE data.total

----------------------------------------------------------------------------
(* What each screen stores from a successful response *)

fetchGenresStore(data) ==
    IF data.shape = "array"
    THEN [list |-> Some(data.rows), pageTotal |-> Some(Len(data.rows))]
    ELSE [list |-> Some(OrArray(ItemsOf(data), <<>>)),
          pageTotal |-> Some(OrNumber(TotalOf(data), 0))]

fetchActorsStore(data) ==
    IF data.shape = "array"
    THEN [list |-> Some(data.rows), pageTotal |-> Some(Len(data.rows))]
    ELSE [list |-> Some(OrArray(ItemsOf(data), <<>>)),
          pageTotal |-> Some(OrNumber(TotalOf(data), 0))]

fetchUsersStore(data) ==
    [list |-> ItemsOf(data), pageTotal |-> TotalOf(data)]

fetchDramasStore(data) ==
    [list |-> Some(OrArray(ItemsOf(data), <<>>)), pageTotal |-> pageTotal]

Store(data) ==
    CASE screen = "genres" -> fetchGenresStore(data)
      [] screen = "actors" -> fetchActorsStore(data)
      [] screen = "users"  -> fetchUsersStore(data)
      [] screen = "dramas" -> fetchDramasStore(data)

FetchFailedToast ==
    CASE screen = "genres" -> "Failed to fetch genres"
      [] screen = "actors" -> "Failed to fetch actors"
      [] screen = "users"  -> "Failed to fetch users"
      [] screen = "dramas" -> "Failed to fetch dramas"

----------------------------------------------------------------------------
(* Requests *)

FetchOf(q) == [kind |-> "fetch", q |-> q]
DeleteOf(q) == [kind |-> "delete", q |-> q]

InFlight == BagCardinality(inflight)
Put(bag, r) == bag (+) SetToBag({r})
Take(bag, r) == bag (-) SetToBag({r})
FetchesInFlight == { r \in BagToSet(inflight) : r.kind = "fetch" }

\* the effect: a render whose dependencies changed calls the fetch function,
\* which sets the loading flag and sends the request
useEffect ==
    IF Deps' # Deps
    THEN /\ isLoading' = TRUE
         /\ inflight' = Put(inflight, FetchOf(Query'))
    ELSE UNCHANGED <<isLoading, inflight>>

\* what the last step was: its kind, a user step's input, the page text it
\* started from, a response's data
Step(op, key, value, data) ==
    [op |-> op, key |-> key, value |-> value, from |-> searchParams.page, data |-> data]

----------------------------------------------------------------------------
(* The list screen *)

PageTexts == {NoParam} \cup { String(n) : n \in 1..MaxPage }

\* the query strings a list screen is opened with
InitialParams ==
    { [page |-> p, search |-> s, status |-> st, genre |-> "", sort |-> so]
        : p \in PageTexts, s \in Searches,
          st \in IF screen = "dramas" THEN Statuses ELSE {""},
          so \in IF screen = "dramas" THEN {"", "rating"} ELSE {""} }

\* the first render and its effect: the list is fetched on mount
ListInit ==
    /\ screen \in Screens
    /\ searchParams \in InitialParams
    /\ status = OrString(searchParams.status, "")
    /\ genreId = OrString(searchParams.genre, "")
    /\ sort = OrString(searchParams.sort, "popular")
    /\ list = Some(<<>>)
    /\ pageTotal = Some(0)
    /\ isLoading = TRUE
    /\ inflight = SetToBag({FetchOf(Query)})
    /\ toast = ""
    /\ last = Step("mount", "", "", NoData)
    /\ events = 0

\* a step of the list screen leaves the variables of the other parts alone
ListFrame == UNCHANGED <<pg, lg, dg, em, df, du, ta>>

\* the history: the entries behind the current one, where the run follows it
NavOff == [on |-> FALSE, back |-> <<>>]
NavOn == [on |-> TRUE, back |-> <<>>]

\* setSearchParams(params): a new history entry with the new query string
setSearchParams(params) ==
    /\ searchParams' = params
    /\ nav' = IF nav.on THEN [nav EXCEPT !.back = Append(@, searchParams)] ELSE nav

\* a response is handled
ResponseStep == ListFrame /\ UNCHANGED nav

\* a user step: the screen is rendered, and the model's budgets allow it
UserStep ==
    /\ ListFrame
    /\ ~Crashed
    /\ InFlight < MaxInflight
    /\ events < MaxEvents
    /\ events' = events + 1

\* setSearchParams({ page, search }): the query string is replaced
PageSearchParams(pageText, text) ==
    [page |-> pageText, search |-> text, status |-> "", genre |-> "", sort |-> ""]

\* setSearchParams({ page, search, status, genre: genreId, sort }) of the drama list
DramaParams(pageText, text) ==
    [page |-> pageText, search |-> text, status |-> status, genre |-> genreId,
     sort |-> sort]

\* the parameters the search form writes
SearchWriteKeepsPage(query) ==
    IF screen = "dramas"
    THEN DramaParams(searchParams.page, query)
    ELSE PageSearchParams(searchParams.page, query)
SearchWrite(query) ==
    IF screen = "dramas"
    THEN DramaParams("1", query)
    ELSE PageSearchParams("1", query)

\* the search form is submitted with text query
handleSearch(query) ==
    /\ UserStep
    /\ setSearchParams(SearchWrite(query))
    /\ UNCHANGED <<screen, status, genreId, sort, list, pageTotal, toast>>
    /\ useEffect
    /\ last' = Step("search", "", query, NoData)

\* the parameters a filter select writes
FilterWriteDropsSearch(key, value) ==
    [page |-> "1", search |-> "",
     status |-> IF key = "status" THEN value ELSE status,
     genre |-> IF key = "genre" THEN value ELSE genreId,
     sort |-> IF key = "sort" THEN value ELSE sort]
FilterWrite(key, value) ==
    [page |-> "1", search |-> search,
     status |-> IF key = "status" THEN value ELSE status,
     genre |-> IF key = "genre" THEN value ELSE genreId,
     sort |-> IF key = "sort" THEN value ELSE sort]

\* a filter select of the drama list changes
handleFilterChange(key, value) ==
    /\ UserStep
    /\ screen = "dramas"
    /\ status' = IF key = "status" THEN value ELSE status
    /\ genreId' = IF key = "genre" THEN value ELSE genreId
    /\ sort' = IF key = "sort" THEN value ELSE sort
    /\ setSearchParams(FilterWrite(key, value))
    /\ UNCHANGED <<screen, list, pageTotal, toast>>
    /\ useEffect
    /\ last' = Step("filter", key, value, NoData)

\* the parameters a pagination button writes
PageWrite(p) ==
    IF screen = "dramas"
    THEN DramaParams(String(p), search)
    ELSE PageSearchParams(String(p), search)

clickNext ==
    /\ UserStep
    /\ ~NextDisabled
    /\ page < MaxPage
    /\ setSearchParams(PageWrite(page + 1))
    /\ UNCHANGED <<screen, status, genreId, sort, list, pageTotal, toast>>
    /\ useEffect
    /\ last' = Step("next", "", "", NoData)

clickPrevious ==
    /\ UserStep
    /\ ~PrevDisabled
    /\ setSearchParams(PageWrite(page - 1))
    /\ UNCHANGED <<screen, status, genreId, sort, list, pageTotal, toast>>
    /\ useEffect
    /\ last' = Step("previous", "", "", NoData)

\* a row's delete button, confirmed: the delete request is sent; its
\* continuation keeps the fetch function of the render that was clicked
handleDelete ==
    /\ UserStep
    /\ ~isLoading
    /\ Len(list[1]) > 0
    /\ inflight' = Put(inflight, DeleteOf(Query))
    /\ UNCHANGED <<screen, searchParams, status, genreId, sort, list, pageTotal,
                   isLoading, toast, nav>>
    /\ last' = Step("delete", "", "", NoData)

DeletedToast ==
    CASE screen = "genres" -> "Genre deleted"
      [] screen = "actors" -> "Actor deleted"
      [] screen = "users"  -> "User deleted"
      [] screen = "dramas" -> "Drama deleted successfully"

DeleteFailedToast ==
    CASE screen = "genres" -> "Failed to delete genre"
      [] screen = "actors" -> "Failed to delete actor"
      [] screen = "users"  -> "Failed to delete user"
      [] screen = "dramas" -> "Failed to delete drama"

\* a response that finds the screen gone (its render threw) changes nothing
ignored(r) ==
    /\ ResponseStep
    /\ Crashed
    /\ inflight' = Take(inflight, r)
    /\ UNCHANGED <<screen, searchParams, status, genreId, sort, list, pageTotal,
                   isLoading, toast, events>>
    /\ last' = Step("ignored", "", "", NoData)

\* the delete request succeeds: the list is fetched again
deleteDone(r) ==
    /\ ResponseStep
    /\ ~Crashed
    /\ r.kind = "delete"
    /\ inflight' = Put(Take(inflight, r), FetchOf(r.q))
    /\ isLoading' = TRUE
    /\ toast' = DeletedToast
    /\ UNCHANGED <<screen, searchParams, status, genreId, sort, list, pageTotal, events>>
    /\ last' = Step("deleteDone", "", "", NoData)

\* the delete request fails
deleteFailed(r) ==
    /\ ResponseStep
    /\ ~Crashed
    /\ r.kind = "delete"
    /\ inflight' = Take(inflight, r)
    /\ toast' = DeleteFailedToast
    /\ UNCHANGED <<screen, searchParams, status, genreId, sort, list, pageTotal,
                   isLoading, events>>
    /\ last' = Step("deleteFailed", "", "", NoData)

\* a list request is answered with data
fetchDoneLatestOnly(r, data) ==
    /\ ResponseStep
    /\ ~Crashed
    /\ r.kind = "fetch"
    /\ inflight' = Take(inflight, r)
    /\ list' = IF r.q = Query THEN Store(data).list ELSE list
    /\ pageTotal' = IF r.q = Query THEN Store(data).pageTotal ELSE pageTotal
    /\ isLoading' = FALSE
    /\ UNCHANGED <<screen, searchParams, status, genreId, sort, toast, events>>
    /\ last' = Step("fetchDone", "", "", data)
fetchDoneListOnly(r, data) ==
    /\ ResponseStep
    /\ ~Crashed
    /\ r.kind = "fetch"
    /\ inflight' = Take(inflight, r)
    /\ list' = Store(data).list
    /\ isLoading' = FALSE
    /\ UNCHANGED <<screen, searchParams, status, genreId, sort, pageTotal, toast, events>>
    /\ last' = Step("fetchDone", "", "", data)
fetchDone(r, data) ==
    /\ ResponseStep
    /\ ~Crashed
    /\ r.kind = "fetch"
    /\ inflight' = Take(inflight, r)
    /\ list' = Store(data).list
    /\ pageTotal' = Store(data).pageTotal
    /\ isLoading' = FALSE
    /\ UNCHANGED <<screen, searchParams, status, genreId, sort, toast, events>>
    /\ last' = Step("fetchDone", "", "", data)

\* a list request fails
fetchFailedClearsList(r) ==
    /\ ResponseStep
    /\ ~Crashed
    /\ r.kind = "fetch"
    /\ inflight' = Take(inflight, r)
    /\ isLoading' = FALSE
    /\ toast' = FetchFailedToast
    /\ list' = Some(<<>>)
    /\ UNCHANGED <<screen, searchParams, status, genreId, sort, pageTotal, events>>
    /\ last' = Step("fetchFailed", "", "", NoData)
fetchFailedKeepsLoading(r) ==
    /\ ResponseStep
    /\ ~Crashed
    /\ r.kind = "fetch"
    /\ inflight' = Take(inflight, r)
    /\ toast' = FetchFailedToast
    /\ UNCHANGED <<screen, searchParams, status, genreId, sort, list, pageTotal,
                   isLoading, events>>
    /\ last' = Step("fetchFailed", "", "", NoData)
fetchFailed(r) ==
    /\ ResponseStep
    /\ ~Crashed
    /\ r.kind = "fetch"
    /\ inflight' = Take(inflight, r)
    /\ isLoading' = FALSE
    /\ toast' = FetchFailedToast
    /\ UNCHANGED <<screen, searchParams, status, genreId, sort, list, pageTotal, events>>
    /\ last' = Step("fetchFailed", "", "", NoData)

\* the browser's Back button: the previous entry's query string is current
\* again; the component stays mounted and keeps its state
popstate ==
    /\ UserStep
    /\ nav.on
    /\ nav.back # <<>>
    /\ searchParams' = nav.back[Len(nav.back)]
    /\ nav' = [nav EXCEPT !.back = SubSeq(@, 1, Len(@) - 1)]
    /\ UNCHANGED <<screen, status, genreId, sort, list, pageTotal, toast>>
    /\ useEffect
    /\ last' = Step("popstate", "", "", NoData)

Next ==
    \/ \E query \in Searches : handleSearch(query)
    \/ \E value \in Statuses : handleFilterChange("status", value)
    \/ \E value \in GenreIds : handleFilterChange("genre", value)
    \/ \E value \in Sorts : handleFilterChange("sort", value)
    \/ clickNext
    \/ clickPrevious
    \/ handleDelete
    \/ \E r \in BagToSet(inflight) : ignored(r)
    \/ \E r \in BagToSet(inflight) : deleteDone(r)
    \/ \E r \in BagToSet(inflight) : deleteFailed(r)
    \/ \E r \in BagToSet(inflight) : \E data \in DataChoices(r.q) : fetchDone(r, data)
    \/ \E r \in BagToSet(inflight) : fetchFailed(r)

----------------------------------------------------------------------------
(* The form dialog of the genres and actors screens *)

\* texts typed into the form: the name, and the slug or photo URL
Names == { <<>>, <<"n">> }
Extras == { <<>>, <<"v">>, <<"h", ":", "v">> }
FormValues == { [name |-> n, extra |-> x] : n \in Names, x \in Extras }

\* z.string().url(): the text parses as a URL, a scheme before a colon
IsUrl(t) ==
    \E colon \in 2..Len(t) :
        /\ t[colon] = ":"
        /\ \A i \in 1..(colon - 1) : t[i] \notin {":", "/", "."}

\* genreSchema, actorSchema: the fields that fail
genreSchema(values) ==
    IF Len(values.name) >= 1 THEN {} ELSE {"name"}
actorSchema(values) ==
    (IF Len(values.name) >= 1 THEN {} ELSE {"name"})
    \cup (IF values.extra = <<>> \/ IsUrl(values.extra) THEN {} ELSE {"photo_url"})
dialogSchema(values) ==
    IF screen = "genres" THEN genreSchema(values) ELSE actorSchema(values)

DgIdle == [open |-> FALSE, editing |-> FALSE, form |-> [name |-> <<>>, extra |-> <<>>],
           errors |-> {}]

CreateOf(q) == [kind |-> "create", q |-> q]
UpdateOf(q) == [kind |-> "update", q |-> q]

\* a user step on the dialog's screen
DialogStep ==
    /\ UNCHANGED <<pg, lg, em, df, du, ta>>
    /\ screen \in {"genres", "actors"}
    /\ ~Crashed
    /\ InFlight < MaxInflight
    /\ events < MaxEvents
    /\ events' = events + 1

\* the Add button
handleCreate ==
    /\ DialogStep
    /\ dg' = [dg EXCEPT !.editing = FALSE, !.form = DgIdle.form, !.errors = {},
                         !.open = TRUE]
    /\ UNCHANGED <<screen, searchParams, status, genreId, sort, list, pageTotal,
                   isLoading, inflight, toast, nav>>
    /\ last' = Step("openCreate", "", "", NoData)

\* a row's edit button: the form takes the row's values
handleEdit(values) ==
    /\ DialogStep
    /\ ~isLoading
    /\ Len(list[1]) > 0
    /\ dg' = [dg EXCEPT !.editing = TRUE, !.form = values, !.open = TRUE]
    /\ UNCHANGED <<screen, searchParams, status, genreId, sort, list, pageTotal,
                   isLoading, inflight, toast, nav>>
    /\ last' = Step("openEdit", "", "", NoData)

\* Cancel, or the dialog's own close
closeDialog ==
    /\ DialogStep
    /\ dg.open
    /\ dg' = [dg EXCEPT !.open = FALSE]
    /\ UNCHANGED <<screen, searchParams, status, genreId, sort, list, pageTotal,
                   isLoading, inflight, toast, nav>>
    /\ last' = Step("close", "", "", NoData)

\* handleSubmit(onSubmit) with the typed values: the resolver runs first,
\* onSubmit sends the request only for values that pass
dialogSubmitUnchecked(values) ==
    /\ DialogStep
    /\ dg.open
    /\ dg' = [dg EXCEPT !.form = values, !.errors = {}]
    /\ inflight' = Put(inflight, IF dg.editing THEN UpdateOf(Query) ELSE CreateOf(Query))
    /\ last' = Step("save", "", "", NoData)
    /\ UNCHANGED <<screen, searchParams, status, genreId, sort, list, pageTotal,
                   isLoading, toast, nav>>
dialogSubmit(values) ==
    /\ DialogStep
    /\ dg.open
    /\ LET errs == dialogSchema(values)
       IN  /\ dg' = [dg EXCEPT !.form = values, !.errors = errs]
           /\ IF errs = {}
              THEN /\ inflight' = Put(inflight, IF dg.editing THEN UpdateOf(Query)
                                                ELSE CreateOf(Query))
                   /\ last' = Step("save", "", "", NoData)
              ELSE /\ UNCHANGED inflight
                   /\ last' = Step("invalid", "", "", NoData)
    /\ UNCHANGED <<screen, searchParams, status, genreId, sort, list, pageTotal,
                   isLoading, toast, nav>>

SavedToast(r) ==
    CASE screen = "genres" /\ r.kind = "update" -> "Genre updated"
      [] screen = "genres" /\ r.kind = "create" -> "Genre created"
      [] screen = "actors" /\ r.kind = "update" -> "Actor updated"
      [] screen = "actors" /\ r.kind = "create" -> "Actor created"

\* the create or update request succeeds: the dialog closes and the list is
\* fetched with the fetch function of the render that submitted
onSubmitDoneNoRefetch(r) ==
    /\ UNCHANGED <<pg, lg, em, df, du, ta>>
    /\ ~Crashed
    /\ r.kind \in {"create", "update"}
    /\ toast' = SavedToast(r)
    /\ dg' = [dg EXCEPT !.open = FALSE]
    /\ inflight' = Take(inflight, r)
    /\ UNCHANGED <<screen, searchParams, status, genreId, sort, list, pageTotal,
                   isLoading, events, nav>>
    /\ last' = Step("saveDone", "", "", NoData)
onSubmitDone(r) ==
    /\ UNCHANGED <<pg, lg, em, df, du, ta>>
    /\ ~Crashed
    /\ r.kind \in {"create", "update"}
    /\ toast' = SavedToast(r)
    /\ dg' = [dg EXCEPT !.open = FALSE]
    /\ isLoading' = TRUE
    /\ inflight' = Put(Take(inflight, r), FetchOf(r.q))
    /\ UNCHANGED <<screen, searchParams, status, genreId, sort, list, pageTotal,
                   events, nav>>
    /\ last' = Step("saveDone", "", "", NoData)

\* the create or update request fails
onSubmitFailedCloses(r) ==
    /\ UNCHANGED <<pg, lg, em, df, du, ta>>
    /\ ~Crashed
    /\ r.kind \in {"create", "update"}
    /\ toast' = "Operation failed"
    /\ dg' = [dg EXCEPT !.open = FALSE]
    /\ inflight' = Take(inflight, r)
    /\ UNCHANGED <<screen, searchParams, status, genreId, sort, list, pageTotal,
                   isLoading, events, nav>>
    /\ last' = Step("saveFailed", "", "", NoData)
onSubmitFailed(r) ==
    /\ UNCHANGED <<pg, lg, dg, em, df, du, ta>>
    /\ ~Crashed
    /\ r.kind \in {"create", "update"}
    /\ toast' = "Operation failed"
    /\ inflight' = Take(inflight, r)
    /\ UNCHANGED <<screen, searchParams, status, genreId, sort, list, pageTotal,
                   isLoading, events, nav>>
    /\ last' = Step("saveFailed", "", "", NoData)

NextDialog ==
    \/ handleCreate
    \/ \E values \in FormValues : handleEdit(values)
    \/ closeDialog
    \/ \E values \in FormValues : dialogSubmit(values)
    \/ \E r \in BagToSet(inflight) : onSubmitDone(r)
    \/ \E r \in BagToSet(inflight) : onSubmitFailed(r)
    \/ \E r \in BagToSet(inflight) : \E data \in DataChoices(r.q) : fetchDone(r, data)
    \/ \E r \in BagToSet(inflight) : fetchFailed(r)

----------------------------------------------------------------------------
(* The pagination arithmetic on its own *)

PgIdle == [total |-> 0, page |-> 1, totalPages |-> 0, nextDisabled |-> TRUE, done |-> FALSE]

PgInit ==
    pg \in { [total |-> t, page |-> p, totalPages |-> 0, nextDisabled |-> TRUE,
              done |-> FALSE] : t \in 0..MaxTotal, p \in 1..MaxPageArith }

PgRender ==
    /\ UNCHANGED <<listVars, lg, dg, em, df, du, ta>>
    /\ ~pg.done
    /\ pg' = [pg EXCEPT !.totalPages = CeilDiv(pg.total, limit),
                        !.nextDisabled = NextDisabledAt(pg.page, pg.total),
                        !.done = TRUE]

----------------------------------------------------------------------------
(* The login screen *)

\* a text is a sequence of characters
Emails == { <<>>, <<"a">>, <<"a", "@", "a">>, <<"a", "@", "a", ".", "a">>,
            <<"@", "a", ".", "a", "a">>, <<"a", "@", "a", ".", "a", "a">> }
Passwords == { <<>>, <<"p">> }

\* z.string().email(): one "@" after a non-empty local part, then labels
\* separated by dots, the last of at least two characters
IsEmail(t) ==
    \E at \in 1..Len(t) :
        /\ t[at] = "@"
        /\ \A i \in 1..Len(t) : t[i] = "@" => i = at
        /\ at > 1
        /\ t[1] # "." /\ t[at - 1] # "."
        /\ \E dot \in (at + 2)..(Len(t) - 2) :
              /\ t[dot] = "."
              /\ \A i \in (dot + 1)..Len(t) : t[i] # "."
              /\ \A i \in (at + 1)..(Len(t) - 1) : ~(t[i] = "." /\ t[i + 1] = ".")
              /\ t[at + 1] # "."

\* loginSchema: the fields that fail
loginSchema(email, password) ==
    (IF IsEmail(email) THEN {} ELSE {"email"})
    \cup (IF Len(password) >= 1 THEN {} ELSE {"password"})

\* the server's answers to POST /auth/login
LoginResponses ==
    { [http |-> "error", success |-> FALSE, message |-> m, role |-> ""]
        : m \in {"", "Invalid credentials"} }
    \cup { [http |-> "ok", success |-> FALSE, message |-> "Invalid credentials", role |-> ""] }
    \cup { [http |-> "ok", success |-> TRUE, message |-> "", role |-> ro]
        : ro \in {"admin", "user"} }

NoResponse == [http |-> "none", success |-> FALSE, message |-> "", role |-> ""]

\* the API client: the call fails on an HTTP error status or success=false
ApiFails(resp) == resp.http = "error" \/ ~resp.success

\* the auth store's login(user, token)
authLogin(store, user, token) == [user |-> Some(user), token |-> Some(token)]

LgIdle ==
    [isLoading |-> FALSE, pending |-> 0, store |-> [user |-> Undefined, token |-> Undefined],
     path |-> "/login", toast |-> "", errors |-> {}, attempts |-> 0,
     last |-> [op |-> "mount", resp |-> NoResponse, email |-> <<>>, password |-> <<>>]]

LgFrame == UNCHANGED <<listVars, pg, dg, em, df, du, ta>>

\* handleSubmit(onSubmit): the resolver runs first; onSubmit only gets valid values
loginSubmitUnchecked(email, password) ==
    /\ LgFrame
    /\ lg.path = "/login"
    /\ lg.attempts < MaxAttempts
    /\ lg.pending < MaxLogins
    /\ lg' = [lg EXCEPT !.errors = {}, !.attempts = @ + 1,
                        !.isLoading = TRUE, !.pending = @ + 1,
                        !.last = [op |-> "submit", resp |-> NoResponse,
                                  email |-> email, password |-> password]]
loginSubmit(email, password) ==
    /\ LgFrame
    /\ lg.path = "/login"
    /\ lg.attempts < MaxAttempts
    /\ lg.pending < MaxLogins
    /\ LET errs == loginSchema(email, password)
       IN  IF errs # {}
           THEN lg' = [lg EXCEPT !.errors = errs, !.attempts = @ + 1,
                                 !.last = [op |-> "invalid", resp |-> NoResponse,
                                           email |-> email, password |-> password]]
           ELSE lg' = [lg EXCEPT !.errors = {}, !.attempts = @ + 1,
                                 !.isLoading = TRUE, !.pending = @ + 1,
                                 !.last = [op |-> "submit", resp |-> NoResponse,
                                           email |-> email, password |-> password]]

\* authService.login resolved: the try branch and finally
onSubmitResolvedAnyRole(resp) ==
    /\ LgFrame
    /\ lg.pending > 0
    /\ ~ApiFails(resp)
    /\ lg' = [lg EXCEPT
                !.pending = @ - 1,
                !.isLoading = FALSE,
                !.store = IF resp.success THEN authLogin(@, [role |-> resp.role], "t") ELSE @,
                !.toast = IF resp.success THEN "Welcome back!" ELSE @,
                !.path = IF resp.success THEN "/" ELSE @,
                !.last = [lg.last EXCEPT !.op = "resolved", !.resp = resp]]
onSubmitResolved(resp) ==
    /\ LgFrame
    /\ lg.pending > 0
    /\ ~ApiFails(resp)
    /\ LET admitted == resp.success /\ resp.role = "admin"
       IN  lg' = [lg EXCEPT
                !.pending = @ - 1,
                !.isLoading = FALSE,
                !.store = IF admitted THEN authLogin(@, [role |-> resp.role], "t") ELSE @,
                !.toast = IF admitted THEN "Welcome back!"
                          ELSE IF resp.success THEN "Access denied. Admin only." ELSE @,
                !.path = IF admitted THEN "/" ELSE @,
                !.last = [lg.last EXCEPT !.op = "resolved", !.resp = resp]]

\* authService.login failed: the catch branch and finally
onSubmitRejectedSilent(resp) ==
    /\ LgFrame
    /\ lg.pending > 0
    /\ ApiFails(resp)
    /\ lg' = [lg EXCEPT
                !.pending = @ - 1,
                !.isLoading = FALSE,
                !.last = [lg.last EXCEPT !.op = "rejected", !.resp = resp]]
onSubmitRejected(resp) ==
    /\ LgFrame
    /\ lg.pending > 0
    /\ ApiFails(resp)
    /\ lg' = [lg EXCEPT
                !.pending = @ - 1,
                !.isLoading = FALSE,
                !.toast = OrString(resp.message, "Failed to login"),
                !.last = [lg.last EXCEPT !.op = "rejected", !.resp = resp]]

NextLogin ==
    \/ \E email \in Emails : \E password \in Passwords : loginSubmit(email, password)
    \/ \E resp \in LoginResponses : onSubmitResolved(resp)
    \/ \E resp \in LoginResponses : onSubmitRejected(resp)

----------------------------------------------------------------------------
(* Episode management *)

\* the value of a decimal digit
DigitValue(c) == CHOOSE d \in 0..9 : Digits[d + 1] = c

RECURSIVE NumberOfDigits(_)
NumberOfDigits(t) ==
    IF t = <<>> THEN 0
    ELSE 10 * NumberOfDigits(SubSeq(t, 1, Len(t) - 1)) + DigitValue(t[Len(t)])

\* z.coerce.number() on an input's text: Number(text), Undefined for NaN
CoerceNumber(t) ==
    IF \A i \in 1..Len(t) : \E d \in 0..9 : Digits[d + 1] = t[i]
    THEN Some(NumberOfDigits(t))
    ELSE Undefined

\* the text an input shows for a number
RECURSIVE TextOfNumber(_)
TextOfNumber(n) ==
    IF n < 10 THEN <<Digits[n + 1]>>
    ELSE TextOfNumber(n \div 10) \o <<Digits[(n % 10) + 1]>>

\* Number(data.duration) * 60
SecondsOfMinutesUnconverted(minutes) == minutes
SecondsOfMinutes(minutes) == minutes * 60

\* Math.round(duration / 60)
MinutesOfSeconds(seconds) == (seconds + 30) \div 60

\* episodeSchema: the fields that fail
AtLeastOne(t) == CoerceNumber(t) # Undefined /\ CoerceNumber(t)[1] >= 1
episodeSchema(values) ==
    (IF Len(values.title) >= 1 THEN {} ELSE {"title"})
    \cup (IF AtLeastOne(values.episode_number) THEN {} ELSE {"episode_number"})
    \cup (IF AtLeastOne(values.duration) THEN {} ELSE {"duration"})
    \cup (IF IsUrl(values.video_url) THEN {} ELSE {"video_url"})
    \cup (IF values.thumbnail_url = <<>> \/ IsUrl(values.thumbnail_url)
          THEN {} ELSE {"thumbnail_url"})

\* the form openCreateDialog resets to
CreateForm ==
    [title |-> <<>>, episode_number |-> <<"1">>, duration |-> <<"6", "0">>,
     video_url |-> <<>>, thumbnail_url |-> <<>>]

GoodUrl == <<"h", ":", "v">>

\* what the user types over the form: nothing, or one field
Typed(form) ==
    { form,
      [form EXCEPT !.title = <<"t">>, !.video_url = GoodUrl],
      [form EXCEPT !.title = <<"t">>, !.video_url = <<"v">>],
      [form EXCEPT !.title = <<"t">>, !.video_url = GoodUrl, !.duration = <<"9", "0">>],
      [form EXCEPT !.title = <<"t">>, !.video_url = GoodUrl, !.duration = <<>>],
      [form EXCEPT !.title = <<"t">>, !.video_url = GoodUrl, !.episode_number = <<"0">>],
      [form EXCEPT !.title = <<"t">>, !.video_url = GoodUrl, !.thumbnail_url = <<"v">>] }

SeasonIds == {"s1", "s2", "s3"}
MaxEmEvents == 3
MaxEmInflight == 2
MaxMounts == 3

\* the server's seasons of the drama, in the order it lists them, and the
\* episodes of each season
Season(id, number) == [id |-> id, season_number |-> number]
Episode(id, seconds) == [id |-> id, duration |-> seconds]
Servers ==
    { [seasons |-> <<Season("s1", 1), Season("s2", 2)>>,
       episodes |-> [x \in SeasonIds |-> IF x = "s2" THEN eps ELSE <<>>],
       nextId |-> 2]
        : eps \in { <<>>, <<Episode(1, 5400)>>, <<Episode(1, 100)>> } }
    \cup
    { [seasons |-> <<>>, episodes |-> [x \in SeasonIds |-> <<>>], nextId |-> 1] }

NoList == [gen |-> 0, season |-> "", episodes |-> <<>>, loading |-> FALSE]

\* a request of the page: its kind and what its continuation closes over
Request(kind) ==
    [kind |-> kind, sel |-> Undefined, season |-> "", gen |-> 0, id |-> 0,
     seconds |-> 0, number |-> 0]
LoadOf(sel) == [Request("load") EXCEPT !.sel = sel]
EpisodesOf(season, gen) == [Request("episodes") EXCEPT !.season = season, !.gen = gen]

\* EpisodeManage as mounted over server srv: fetchData is under way
Mounted(srv) ==
    [srv |-> srv, isLoading |-> TRUE, seasons |-> <<>>, selectedSeason |-> Undefined,
     isDialogOpen |-> FALSE, editingEpisode |-> Undefined, form |-> CreateForm,
     errors |-> {}, list |-> NoList, mounts |-> 0,
     inflight |-> SetToBag({LoadOf(Undefined)}), toast |-> "", escaped |-> FALSE,
     events |-> 0, savedIn |-> Undefined, last |-> [op |-> "mount", season |-> ""]]

EmIdle == [Mounted([seasons |-> <<>>, episodes |-> [x \in SeasonIds |-> <<>>], nextId |-> 1])
             EXCEPT !.inflight = EmptyBag, !.isLoading = FALSE, !.events = MaxEmEvents]

EmFrame == UNCHANGED <<listVars, pg, lg, dg, df, du, ta>>

\* savedIn: the season of the episode saved last, until the next user step
EmUserStep ==
    /\ EmFrame
    /\ em.events < MaxEmEvents
    /\ BagCardinality(em.inflight) < MaxEmInflight

\* the EpisodeList is mounted anew for season id: it fetches its episodes
Remounted(e, id) ==
    [e EXCEPT !.list = [gen |-> e.mounts + 1, season |-> id, episodes |-> <<>>,
                        loading |-> TRUE],
              !.mounts = @ + 1,
              !.inflight = Put(@, EpisodesOf(id, e.mounts + 1))]

\* setSelectedSeason(sel): the list is keyed by the selected season
Selected(e, sel) ==
    LET f == [e EXCEPT !.selectedSeason = sel]
    IN  IF sel = e.selectedSeason THEN f
        ELSE IF sel = Undefined THEN [f EXCEPT !.list = NoList]
        ELSE Remounted(f, sel[1])

SeasonIdsOf(seasons) == { seasons[i].id : i \in 1..Len(seasons) }

\* fetchData resolved: its closure's selectedSeason decides the selection
fetchDataDone(r) ==
    /\ EmFrame
    /\ r.kind = "load"
    /\ LET e == [em EXCEPT !.inflight = Take(@, r), !.seasons = em.srv.seasons,
                           !.isLoading = FALSE,
                           !.last = [op |-> "loaded", season |-> ""]]
       IN  em' = IF Len(em.srv.seasons) > 0 /\ r.sel = Undefined
                 THEN Selected(e, Some(em.srv.seasons[1].id))
                 ELSE e

fetchDataFailed(r) ==
    /\ EmFrame
    /\ r.kind = "load"
    /\ em' = [em EXCEPT !.inflight = Take(@, r), !.isLoading = FALSE,
                        !.toast = "Failed to load data",
                        !.last = [op |-> "loadFailed", season |-> ""]]

\* a season of the sidebar is clicked
selectSeason(id) ==
    /\ EmUserStep
    /\ ~em.isLoading
    /\ id \in SeasonIdsOf(em.seasons)
    /\ em.mounts < MaxMounts
    /\ em' = [Selected(em, Some(id)) EXCEPT !.events = @ + 1, !.savedIn = Undefined,
                                           !.last = [op |-> "select", season |-> id]]

\* the list instance that sent r is still the mounted one
Current(r) == em.selectedSeason # Undefined /\ em.list.gen = r.gen

\* fetchEpisodes resolved
fetchEpisodesDone(r) ==
    /\ EmFrame
    /\ r.kind = "episodes"
    /\ r.season \in SeasonIdsOf(em.srv.seasons)
    /\ em' = [em EXCEPT !.inflight = Take(@, r),
                        !.list = IF Current(r)
                                 THEN [@ EXCEPT !.episodes = em.srv.episodes[r.season],
                                                !.loading = FALSE]
                                 ELSE @,
                        !.last = [op |-> "episodes", season |-> r.season]]

\* fetchEpisodes failed: only logged
fetchEpisodesFailed(r) ==
    /\ EmFrame
    /\ r.kind = "episodes"
    /\ em' = [em EXCEPT !.inflight = Take(@, r),
                        !.list = IF Current(r) THEN [@ EXCEPT !.loading = FALSE] ELSE @,
                        !.last = [op |-> "episodesFailed", season |-> r.season]]

\* the form an episode's edit button fills in
EditForm(ep) ==
    [title |-> <<"t">>, episode_number |-> <<"1">>,
     duration |-> TextOfNumber(MinutesOfSeconds(ep.duration)),
     video_url |-> GoodUrl, thumbnail_url |-> <<>>]

openCreateDialog ==
    /\ EmUserStep
    /\ em.selectedSeason # Undefined
    /\ em' = [em EXCEPT !.editingEpisode = Undefined, !.form = CreateForm,
                        !.errors = {}, !.isDialogOpen = TRUE, !.events = @ + 1, !.savedIn = Undefined,
                        !.last = [op |-> "openCreate", season |-> ""]]

openEditDialog(i) ==
    /\ EmUserStep
    /\ em.selectedSeason # Undefined
    /\ ~em.list.loading
    /\ i \in 1..Len(em.list.episodes)
    /\ em' = [em EXCEPT !.editingEpisode = Some(em.list.episodes[i]),
                        !.form = EditForm(em.list.episodes[i]),
                        !.errors = {}, !.isDialogOpen = TRUE, !.events = @ + 1, !.savedIn = Undefined,
                        !.last = [op |-> "openEdit", season |-> ""]]

closeEpisodeDialog ==
    /\ EmUserStep
    /\ em.isDialogOpen
    /\ em' = [em EXCEPT !.isDialogOpen = FALSE, !.events = @ + 1, !.savedIn = Undefined,
                        !.last = [op |-> "close", season |-> ""]]

\* the request handleCreateOrUpdateEpisode sends for the validated values
SaveOf(e, values) ==
    [Request("saveEpisode") EXCEPT
        !.sel = e.selectedSeason,
        !.season = e.selectedSeason[1],
        !.id = IF e.editingEpisode = Undefined THEN 0 ELSE e.editingEpisode[1].id,
        !.seconds = SecondsOfMinutes(CoerceNumber(values.duration)[1])]

\* handleSubmit(handleCreateOrUpdateEpisode) with the typed values
submitEpisodeUnchecked(values) ==
    /\ EmUserStep
    /\ em.isDialogOpen
    /\ CoerceNumber(values.duration) # Undefined
    /\ em' = [em EXCEPT !.form = values, !.errors = {}, !.events = @ + 1, !.savedIn = Undefined,
                        !.inflight = IF em.selectedSeason = Undefined THEN @
                                     ELSE Put(@, SaveOf(em, values)),
                        !.last = [op |-> "save", season |-> ""]]
submitEpisode(values) ==
    /\ EmUserStep
    /\ em.isDialogOpen
    /\ LET errs == episodeSchema(values)
       IN  em' = IF errs # {}
                 THEN [em EXCEPT !.form = values, !.errors = errs, !.events = @ + 1, !.savedIn = Undefined,
                                 !.last = [op |-> "invalid", season |-> ""]]
                 ELSE [em EXCEPT !.form = values, !.errors = {}, !.events = @ + 1, !.savedIn = Undefined,
                                 !.inflight = IF em.selectedSeason = Undefined THEN @
                                              ELSE Put(@, SaveOf(em, values)),
                                 !.last = [op |-> "save", season |-> ""]]

\* the server's episodes after the save r
Saved(srv, r) ==
    IF r.id = 0
    THEN [srv EXCEPT !.episodes[r.season] = Append(@, Episode(srv.nextId, r.seconds)),
                     !.nextId = @ + 1]
    ELSE [srv EXCEPT !.episodes[r.season] =
                        [i \in 1..Len(@) |-> IF @[i].id = r.id
                                              THEN Episode(r.id, r.seconds) ELSE @[i]]]

HasEpisode(srv, season, id) ==
    \E i \in 1..Len(srv.episodes[season]) : srv.episodes[season][i].id = id

\* the save succeeded: window.location.reload() mounts the page anew
saveEpisodeDone(r) ==
    /\ EmFrame
    /\ r.kind = "saveEpisode"
    /\ r.season \in SeasonIdsOf(em.srv.seasons)
    /\ r.id # 0 => HasEpisode(em.srv, r.season, r.id)
    /\ em' = [Mounted(Saved(em.srv, r)) EXCEPT
                 !.events = em.events, !.mounts = em.mounts,
                 !.savedIn = Some(r.season),
                 !.last = [op |-> "saved", season |-> r.season]]

saveEpisodeFailedCloses(r) ==
    /\ EmFrame
    /\ r.kind = "saveEpisode"
    /\ em' = [em EXCEPT !.inflight = Take(@, r), !.isDialogOpen = FALSE,
                        !.toast = IF r.id # 0 THEN "Failed to update episode"
                                  ELSE "Failed to create episode",
                        !.last = [op |-> "saveFailed", season |-> r.season]]
saveEpisodeFailed(r) ==
    /\ EmFrame
    /\ r.kind = "saveEpisode"
    /\ em' = [em EXCEPT !.inflight = Take(@, r),
                        !.toast = IF r.id # 0 THEN "Failed to update episode"
                                  ELSE "Failed to create episode",
                        !.last = [op |-> "saveFailed", season |-> r.season]]

\* an episode's delete button, confirmed
handleDeleteEpisode(i) ==
    /\ EmUserStep
    /\ em.selectedSeason # Undefined
    /\ ~em.list.loading
    /\ i \in 1..Len(em.list.episodes)
    /\ em' = [em EXCEPT !.events = @ + 1, !.savedIn = Undefined,
                        !.inflight = Put(@, [Request("deleteEpisode") EXCEPT
                                                !.season = em.list.season,
                                                !.gen = em.list.gen,
                                                !.id = em.list.episodes[i].id]),
                        !.last = [op |-> "deleteEpisode", season |-> em.list.season]]

WithoutEpisode(srv, id) ==
    [srv EXCEPT !.episodes = [x \in SeasonIds |->
                                SelectSeq(srv.episodes[x], LAMBDA ep : ep.id # id)]]

\* the delete succeeded: the list instance fetches again
deleteEpisodeDone(r) ==
    /\ EmFrame
    /\ r.kind = "deleteEpisode"
    /\ em' = [em EXCEPT !.srv = WithoutEpisode(@, r.id),
                        !.inflight = Put(Take(@, r), EpisodesOf(r.season, r.gen)),
                        !.list = IF Current(r) THEN [@ EXCEPT !.loading = TRUE] ELSE @,
                        !.toast = "Episode deleted",
                        !.last = [op |-> "episodeDeleted", season |-> r.season]]

\* the delete failed: the handler has no catch, the rejection is unhandled
deleteEpisodeFailed(r) ==
    /\ EmFrame
    /\ r.kind = "deleteEpisode"
    /\ em' = [em EXCEPT !.inflight = Take(@, r), !.escaped = TRUE,
                        !.last = [op |-> "deleteEpisodeFailed", season |-> r.season]]

\* the add-season button
handleCreateSeason ==
    /\ EmUserStep
    /\ em' = [em EXCEPT !.events = @ + 1, !.savedIn = Undefined,
                        !.inflight = Put(@, [Request("createSeason") EXCEPT
                                                !.sel = em.selectedSeason,
                                                !.number = Len(em.seasons) + 1]),
                        !.last = [op |-> "createSeason", season |-> ""]]

createSeasonDone(r) ==
    /\ EmFrame
    /\ r.kind = "createSeason"
    /\ \E id \in SeasonIds \ SeasonIdsOf(em.srv.seasons) :
          em' = [em EXCEPT !.srv.seasons = Append(@, Season(id, r.number)),
                           !.inflight = Put(Take(@, r), LoadOf(r.sel)),
                           !.isLoading = TRUE,
                           !.toast = "Season added",
                           !.last = [op |-> "seasonCreated", season |-> id]]

createSeasonFailed(r) ==
    /\ EmFrame
    /\ r.kind = "createSeason"
    /\ em' = [em EXCEPT !.inflight = Take(@, r), !.toast = "Failed to create season",
                        !.last = [op |-> "createSeasonFailed", season |-> ""]]

\* a season's delete button, confirmed
handleDeleteSeason(id) ==
    /\ EmUserStep
    /\ ~em.isLoading
    /\ id \in SeasonIdsOf(em.seasons)
    /\ em' = [em EXCEPT !.events = @ + 1, !.savedIn = Undefined,
                        !.inflight = Put(@, [Request("deleteSeason") EXCEPT
                                                !.sel = em.selectedSeason,
                                                !.season = id]),
                        !.last = [op |-> "deleteSeason", season |-> id]]

deleteSeasonDone(r) ==
    /\ EmFrame
    /\ r.kind = "deleteSeason"
    /\ LET e == [em EXCEPT
                    !.srv.seasons = SelectSeq(@, LAMBDA x : x.id # r.season),
                    !.srv.episodes[r.season] = <<>>,
                    !.inflight = Put(Take(@, r), LoadOf(r.sel)),
                    !.isLoading = TRUE,
                    !.toast = "Season deleted",
                    !.last = [op |-> "seasonDeleted", season |-> r.season]]
       IN  em' = IF r.sel = Some(r.season) THEN Selected(e, Undefined) ELSE e

deleteSeasonFailed(r) ==
    /\ EmFrame
    /\ r.kind = "deleteSeason"
    /\ em' = [em EXCEPT !.inflight = Take(@, r), !.toast = "Failed to delete season",
                        !.last = [op |-> "deleteSeasonFailed", season |-> r.season]]

NextEpisodes ==
    \/ \E r \in BagToSet(em.inflight) : fetchDataDone(r)
    \/ \E r \in BagToSet(em.inflight) : fetchDataFailed(r)
    \/ \E id \in SeasonIds : selectSeason(id)
    \/ \E r \in BagToSet(em.inflight) : fetchEpisodesDone(r)
    \/ \E r \in BagToSet(em.inflight) : fetchEpisodesFailed(r)
    \/ openCreateDialog
    \/ \E i \in 1..Len(em.list.episodes) : openEditDialog(i)
    \/ closeEpisodeDialog
    \/ \E values \in Typed(em.form) : submitEpisode(values)
    \/ \E r \in BagToSet(em.inflight) : saveEpisodeDone(r)
    \/ \E r \in BagToSet(em.inflight) : saveEpisodeFailed(r)
    \/ \E i \in 1..Len(em.list.episodes) : handleDeleteEpisode(i)
    \/ \E r \in BagToSet(em.inflight) : deleteEpisodeDone(r)
    \/ \E r \in BagToSet(em.inflight) : deleteEpisodeFailed(r)
    \/ handleCreateSeason
    \/ \E r \in BagToSet(em.inflight) : createSeasonDone(r)
    \/ \E r \in BagToSet(em.inflight) : createSeasonFailed(r)
    \/ \E id \in SeasonIds : handleDeleteSeason(id)
    \/ \E r \in BagToSet(em.inflight) : deleteSeasonDone(r)
    \/ \E r \in BagToSet(em.inflight) : deleteSeasonFailed(r)

----------------------------------------------------------------------------
(* The drama form *)

MaxDfEvents == 4
MaxDfInflight == 3
ThisYear == 2026

ActorIds == {"a1", "a2"}
Roles == {"main", "support"}

\* dramaSchema: the fields that fail
InRange(t, low, high) ==
    CoerceNumber(t) # Undefined /\ CoerceNumber(t)[1] >= low /\ CoerceNumber(t)[1] <= high
dramaSchema(values) ==
    (IF Len(values.title) >= 1 THEN {} ELSE {"title"})
    \cup (IF Len(values.synopsis) >= 10 THEN {} ELSE {"synopsis"})
    \cup (IF values.poster_url = <<>> \/ IsUrl(values.poster_url) THEN {} ELSE {"poster_url"})
    \cup (IF InRange(values.year, 1900, ThisYear + 5) THEN {} ELSE {"year"})
    \cup (IF AtLeastOne(values.total_seasons) THEN {} ELSE {"total_seasons"})
    \cup (IF values.status \in {"ongoing", "completed"} THEN {} ELSE {"status"})
    \cup (IF Cardinality(values.genre_ids) >= 1 THEN {} ELSE {"genre_ids"})

\* useForm's defaultValues, the other inputs empty
DefaultDrama ==
    [title |-> <<>>, synopsis |-> <<>>, poster_url |-> <<>>, year |-> <<>>,
     total_seasons |-> <<"1">>, status |-> "ongoing", genre_ids |-> {}]

\* a filled-in form
FilledDrama ==
    [title |-> <<"t">>, synopsis |-> [i \in 1..10 |-> "s"], poster_url |-> <<>>,
     year |-> TextOfNumber(ThisYear), total_seasons |-> <<"1">>, status |-> "completed",
     genre_ids |-> {"g1"}]

\* what the user submits: the form as it is, filled in, or filled in with
\* one field wrong
DramaTyped(form) ==
    { form, FilledDrama,
      [FilledDrama EXCEPT !.title = <<>>],
      [FilledDrama EXCEPT !.synopsis = <<"s">>],
      [FilledDrama EXCEPT !.poster_url = <<"v">>],
      [FilledDrama EXCEPT !.year = TextOfNumber(1899)],
      [FilledDrama EXCEPT !.year = TextOfNumber(ThisYear + 6)],
      [FilledDrama EXCEPT !.total_seasons = <<"0">>],
      [FilledDrama EXCEPT !.genre_ids = {}] }

\* the cast entries of the drama the server returns, and the actor pages it lists
Cast(id, role) == [actor_id |-> id, role |-> role]
ServerCasts == { <<>>, <<Cast("a1", "support")>> }
ActorPages == { <<>>, <<"a1", "a2">>, <<"a2">> }

DfRequest(kind) == [kind |-> kind, actors |-> <<>>]

\* DramaForm as mounted: the actor search (after its delay) and loadData's
\* genres request are under way
DfMounted(edit) ==
    [edit |-> edit, path |-> IF edit THEN "/dramas/:id/edit" ELSE "/dramas/new",
     isLoading |-> FALSE, isActorsLoading |-> TRUE, availableActors |-> <<>>,
     selectedActors |-> <<>>, currentActorId |-> "", currentActorRole |-> "main",
     form |-> DefaultDrama, errors |-> {},
     inflight |-> SetToBag({DfRequest("actors"), DfRequest("genres")}),
     toast |-> "", events |-> 0,
     last |-> [op |-> "mount", id |-> "", payload |-> <<>>]]

DfIdle == [DfMounted(FALSE) EXCEPT !.path = "/dramas", !.inflight = EmptyBag,
                                   !.isActorsLoading = FALSE]

DfFrame == UNCHANGED <<listVars, pg, lg, dg, em, du, ta>>

\* the form is on screen
DfUserStep ==
    /\ DfFrame
    /\ df.path # "/dramas"
    /\ df.events < MaxDfEvents
    /\ BagCardinality(df.inflight) < MaxDfInflight

Done(op) == [op |-> op, id |-> "", payload |-> <<>>]

ActorIdsOf(cast) == { cast[i].actor_id : i \in 1..Len(cast) }
Elements(seq) == { seq[i] : i \in 1..Len(seq) }

\* the actor page arrived
fetchActorsDone(r, actors) ==
    /\ DfFrame
    /\ r.kind = "actors"
    /\ df' = [df EXCEPT !.inflight = Take(@, r), !.availableActors = actors,
                        !.isActorsLoading = FALSE, !.last = Done("actors")]

\* loadData: the genres arrived; in edit mode the drama is requested next
genresDone(r) ==
    /\ DfFrame
    /\ r.kind = "genres"
    /\ df' = [df EXCEPT !.inflight = IF df.edit THEN Put(Take(@, r), DfRequest("drama"))
                                     ELSE Take(@, r),
                        !.last = Done("genres")]

\* loadData: the drama arrived, the form and the cast are set from it
dramaDone(r, cast) ==
    /\ DfFrame
    /\ r.kind = "drama"
    /\ df' = [df EXCEPT !.inflight = Take(@, r), !.form = FilledDrama,
                        !.selectedActors = cast, !.last = Done("drama")]

\* loadData failed
loadDataFailed(r) ==
    /\ DfFrame
    /\ r.kind \in {"genres", "drama"}
    /\ df' = [df EXCEPT !.inflight = Take(@, r), !.toast = "Failed to load data",
                        !.path = IF df.edit THEN "/dramas" ELSE @,
                        !.last = Done("loadFailed")]

\* an actor of the list is clicked
selectActor(id) ==
    /\ DfUserStep
    /\ ~df.isActorsLoading
    /\ id \in Elements(df.availableActors)
    /\ df' = [df EXCEPT !.currentActorId = IF id \in ActorIdsOf(df.selectedActors)
                                           THEN @ ELSE id,
                        !.events = @ + 1,
                        !.last = [Done("select") EXCEPT !.id = id]]

\* the role select changes
setCurrentActorRole(role) ==
    /\ DfUserStep
    /\ role # df.currentActorRole
    /\ df' = [df EXCEPT !.currentActorRole = role, !.events = @ + 1,
                        !.last = Done("role")]

\* the Add button
handleAddActorAlways ==
    /\ DfUserStep
    /\ df.currentActorId # ""
    /\ df' = [df EXCEPT !.selectedActors =
                            Append(@, Cast(df.currentActorId, df.currentActorRole)),
                        !.currentActorId = "",
                        !.events = @ + 1,
                        !.last = [Done("add") EXCEPT !.id = df.currentActorId]]
handleAddActorMainRole ==
    /\ DfUserStep
    /\ df.currentActorId # ""
    /\ df' = IF df.currentActorId \in ActorIdsOf(df.selectedActors)
             THEN [df EXCEPT !.toast = "Actor already added", !.events = @ + 1,
                             !.last = [Done("addRejected") EXCEPT !.id = df.currentActorId]]
             ELSE IF df.currentActorId \in Elements(df.availableActors)
             THEN [df EXCEPT !.selectedActors = Append(@, Cast(df.currentActorId, "main")),
                             !.currentActorId = "",
                             !.events = @ + 1,
                             !.last = [Done("add") EXCEPT !.id = df.currentActorId]]
             ELSE [df EXCEPT !.events = @ + 1,
                             !.last = [Done("addMissing") EXCEPT !.id = df.currentActorId]]
handleAddActor ==
    /\ DfUserStep
    /\ df.currentActorId # ""
    /\ df' = IF df.currentActorId \in ActorIdsOf(df.selectedActors)
             THEN [df EXCEPT !.toast = "Actor already added", !.events = @ + 1,
                             !.last = [Done("addRejected") EXCEPT !.id = df.currentActorId]]
             ELSE IF df.currentActorId \in Elements(df.availableActors)
             THEN [df EXCEPT !.selectedActors =
                                 Append(@, Cast(df.currentActorId, df.currentActorRole)),
                             !.currentActorId = "",
                             !.events = @ + 1,
                             !.last = [Done("add") EXCEPT !.id = df.currentActorId]]
             ELSE [df EXCEPT !.events = @ + 1,
                             !.last = [Done("addMissing") EXCEPT !.id = df.currentActorId]]

\* a cast entry's remove button
removeActor(id) ==
    /\ DfUserStep
    /\ id \in ActorIdsOf(df.selectedActors)
    /\ df' = [df EXCEPT !.selectedActors = SelectSeq(@, LAMBDA a : a.actor_id # id),
                        !.events = @ + 1,
                        !.last = [Done("remove") EXCEPT !.id = id]]

\* handleSubmit(onSubmit) with the typed values: the resolver runs first;
\* onSubmit builds the payload from the values and the selected cast
submitDramaUnchecked(values) ==
    /\ DfUserStep
    /\ df' = [df EXCEPT !.form = values, !.errors = {}, !.events = @ + 1,
                        !.isLoading = TRUE,
                        !.inflight = Put(@, [DfRequest("saveDrama") EXCEPT
                                                !.actors = df.selectedActors]),
                        !.last = [Done("save") EXCEPT !.payload = df.selectedActors]]
submitDrama(values) ==
    /\ DfUserStep
    /\ LET errs == dramaSchema(values)
       IN  df' = IF errs # {}
                 THEN [df EXCEPT !.form = values, !.errors = errs, !.events = @ + 1,
                                 !.last = Done("invalid")]
                 ELSE [df EXCEPT !.form = values, !.errors = {}, !.events = @ + 1,
                                 !.isLoading = TRUE,
                                 !.inflight = Put(@, [DfRequest("saveDrama") EXCEPT
                                                         !.actors = df.selectedActors]),
                                 !.last = [Done("save") EXCEPT
                                              !.payload = df.selectedActors]]

\* the create or update request succeeded
saveDramaDone(r) ==
    /\ DfFrame
    /\ r.kind = "saveDrama"
    /\ df' = [df EXCEPT !.inflight = Take(@, r), !.isLoading = FALSE,
                        !.toast = IF df.edit THEN "Drama updated successfully"
                                  ELSE "Drama created successfully",
                        !.path = "/dramas",
                        !.last = Done("saved")]

\* the create or update request failed
saveDramaFailed(r) ==
    /\ DfFrame
    /\ r.kind = "saveDrama"
    /\ df' = [df EXCEPT !.inflight = Take(@, r), !.isLoading = FALSE,
                        !.toast = IF df.edit THEN "Failed to update drama"
                                  ELSE "Failed to create drama",
                        !.last = Done("saveFailed")]

NextDramaForm ==
    \/ \E r \in BagToSet(df.inflight) : \E actors \in ActorPages : fetchActorsDone(r, actors)
    \/ \E r \in BagToSet(df.inflight) : genresDone(r)
    \/ \E r \in BagToSet(df.inflight) : \E cast \in ServerCasts : dramaDone(r, cast)
    \/ \E r \in BagToSet(df.inflight) : loadDataFailed(r)
    \/ \E id \in ActorIds : selectActor(id)
    \/ \E role \in Roles : setCurrentActorRole(role)
    \/ handleAddActor
    \/ \E id \in ActorIds : removeActor(id)
    \/ \E values \in DramaTyped(df.form) : submitDrama(values)
    \/ \E r \in BagToSet(df.inflight) : saveDramaDone(r)
    \/ \E r \in BagToSet(df.inflight) : saveDramaFailed(r)
(* An episode's duration on its way through the form, the server and back *)

MaxMinutes == 120

\* not on its way: no duration has been typed
DuIdle == [stage |-> "idle", minutes |-> 0, typed |-> <<>>, error |-> FALSE,
           stored |-> Undefined, cell |-> Undefined, form |-> Undefined]

\* the Duration (minutes) input holds the text of a whole number
DuTyped(m) == [DuIdle EXCEPT !.stage = "typed", !.minutes = m,
                             !.typed = TextOfNumber(m)]

DuFrame == UNCHANGED <<listVars, pg, lg, dg, em, df, ta>>

\* the form is submitted: the resolver refuses a duration below 1
durationRejected ==
    /\ DuFrame
    /\ du.stage = "typed"
    /\ ~AtLeastOne(du.typed)
    /\ du' = [du EXCEPT !.stage = "rejected", !.error = TRUE]

\* the form is submitted: the payload carries the duration in seconds
durationSubmitted ==
    /\ DuFrame
    /\ du.stage = "typed"
    /\ AtLeastOne(du.typed)
    /\ du' = [du EXCEPT !.stage = "stored",
                        !.stored = Some(SecondsOfMinutes(CoerceNumber(du.typed)[1]))]

\* the episode is listed: the duration cell
durationListed ==
    /\ DuFrame
    /\ du.stage = "stored"
    /\ du.cell = Undefined
    /\ du' = [du EXCEPT !.cell = Some(MinutesOfSeconds(du.stored[1]))]

\* the episode is opened for edit: the form's duration input
durationReopened ==
    /\ DuFrame
    /\ du.stage = "stored"
    /\ du.form = Undefined
    /\ du' = [du EXCEPT !.form = Some(TextOfNumber(MinutesOfSeconds(du.stored[1])))]

NextDuration ==
    \/ durationRejected
    \/ durationSubmitted
    \/ durationListed
    \/ durationReopened

----------------------------------------------------------------------------
(* The actor typeahead of the drama form: search text, page, debounce *)

MaxTaEvents == 3
MaxTaInflight == 2
MaxActorPage == 2
TickMs == 100

(* Program constants *)
DebounceMs == 300
ActorLimit == 10

ActorSearches == {"", "a", "ab"}
ActorTotals == {5, 15}

\* how many actors match each search text: a longer text matches no more
ActorServers ==
    { srv \in [ActorSearches -> ActorTotals] : srv[""] >= srv["a"] /\ srv["a"] >= srv["ab"] }

\* the rows of page p of the total actors that match a search text
ActorRows(text, p, total) ==
    LET rest == total - (p - 1) * ActorLimit
        n == IF rest <= 0 THEN 0 ELSE IF rest >= ActorLimit THEN ActorLimit ELSE rest
    IN  [i \in 1..n |-> [q |-> text, i |-> (p - 1) * ActorLimit + i]]

\* a pending setTimeout of the fetching effect: fetchActors closes over the
\* search text, the page and the available list (its length is read) of
\* the render that ran the effect
Timer(text, p, held) == [search |-> text, page |-> p, held |-> held, elapsed |-> 0]

TaStep(op, text, p, total) == [op |-> op, search |-> text, page |-> p, total |-> total]

\* the form is mounted: the effect has run once
TaMounted(srv) ==
    [srv |-> srv, actorSearch |-> "", actorPage |-> 1, availableActors |-> <<>>,
     hasMoreActors |-> TRUE, isActorsLoading |-> FALSE,
     timers |-> {Timer("", 1, 0)}, inflight |-> EmptyBag,
     quiet |-> 0, sent |-> 0, issued |-> 0, events |-> 0,
     last |-> TaStep("mount", "", 1, 0)]

\* the drama form is not on screen
TaIdle == [TaMounted([t \in ActorSearches |-> 0]) EXCEPT
              !.timers = {}, !.events = MaxTaEvents, !.last = TaStep("idle", "", 1, 0)]

TaFrame == UNCHANGED <<listVars, pg, lg, dg, em, df, du>>

\* the effect on [actorSearch, actorPage]: the cleanup of the previous run
\* clears its timeout, then a new timeout is set
searchEffectNoCleanup(timers, text, p, held) == timers \cup {Timer(text, p, held)}
searchEffect(timers, text, p, held) == {Timer(text, p, held)}

\* time passes while a timeout is pending and none is due
tick ==
    /\ TaFrame
    /\ ta.timers # {}
    /\ \A t \in ta.timers : t.elapsed < DebounceMs
    /\ ta' = [ta EXCEPT !.timers = { [t EXCEPT !.elapsed = @ + TickMs] : t \in ta.timers },
                        !.quiet = @ + TickMs,
                        !.last = TaStep("tick", ta.actorSearch, ta.actorPage, 0)]

\* a timeout is due: fetchActors sets the loading flag and sends the request
fetchActors(t) ==
    /\ TaFrame
    /\ t \in ta.timers
    /\ t.elapsed >= DebounceMs
    /\ BagCardinality(ta.inflight) < MaxTaInflight
    /\ ta' = [ta EXCEPT !.timers = @ \ {t},
                        !.isActorsLoading = TRUE,
                        !.inflight = Put(@, [search |-> t.search, page |-> t.page,
                                             held |-> t.held]),
                        !.sent = @ + 1, !.issued = @ + 1,
                        !.last = TaStep("fetchActors", t.search, t.page, 0)]

\* the search input changes: the fetching effect runs for the new text; the
\* second effect sets the page to 1, and if that changes the page the
\* fetching effect runs again
setActorSearch(text) ==
    /\ TaFrame
    /\ ta.events < MaxTaEvents
    /\ text # ta.actorSearch
    /\ LET held == Len(ta.availableActors)
           first == searchEffect(ta.timers, text, ta.actorPage, held)
           second == IF ta.actorPage # 1 THEN searchEffect(first, text, 1, held)
                     ELSE first
       IN  ta' = [ta EXCEPT !.actorSearch = text, !.actorPage = 1,
                            !.timers = second,
                            !.quiet = 0, !.sent = 0, !.events = @ + 1,
                            !.last = TaStep("search", text, 1, 0)]

\* the Load More button, shown under a loaded, non-empty list
loadMore ==
    /\ TaFrame
    /\ ta.events < MaxTaEvents
    /\ ta.hasMoreActors
    /\ ~ta.isActorsLoading
    /\ ta.availableActors # <<>>
    /\ ta.actorPage < MaxActorPage
    /\ ta' = [ta EXCEPT !.actorPage = @ + 1,
                        !.timers = searchEffect(ta.timers, ta.actorSearch,
                                                ta.actorPage + 1, Len(ta.availableActors)),
                        !.quiet = 0, !.sent = 0, !.events = @ + 1,
                        !.last = TaStep("more", ta.actorSearch, ta.actorPage + 1, 0)]

\* the actors request succeeds: page 1 replaces the list, a later page is
\* appended; has-more is computed from the list length fetchActors closed over
actorsResolved(r) ==
    /\ TaFrame
    /\ LET total == ta.srv[r.search]
           actors == ActorRows(r.search, r.page, total)
       IN  ta' = [ta EXCEPT !.inflight = Take(@, r),
                            !.availableActors = IF r.page = 1 THEN actors
                                                ELSE @ \o actors,
                            !.hasMoreActors = (r.held + Len(actors) < total),
                            !.isActorsLoading = FALSE,
                            !.last = TaStep("actors", r.search, r.page, total)]

\* the actors request fails: logged, the loading flag is cleared
actorsRejected(r) ==
    /\ TaFrame
    /\ ta' = [ta EXCEPT !.inflight = Take(@, r),
                        !.isActorsLoading = FALSE,
                        !.last = TaStep("actorsFailed", r.search, r.page, 0)]

NextTypeahead ==
    \/ tick
    \/ \E t \in ta.timers : fetchActors(t)
    \/ \E text \in ActorSearches : setActorSearch(text)
    \/ loadMore
    \/ \E r \in BagToSet(ta.inflight) : actorsResolved(r)
    \/ \E r \in BagToSet(ta.inflight) : actorsRejected(r)

----------------------------------------------------------------------------
(* The users screen: the delete button of a row *)

\* the role a row shows: the server lists an administrator first
UserRole(row) == IF row.i = 1 THEN "admin" ELSE "user"

DeleteUserOf(q, row) == [kind |-> "delete", q |-> q, user |-> row]

\* row i's delete button is pressed and the confirm prompt is answered; the
\* button is rendered only in rows whose role is not admin
handleDeleteUserAnyRow(i, accepted) ==
    /\ UserStep
    /\ screen = "users"
    /\ ~isLoading
    /\ i \in 1..Len(list[1])
    /\ inflight' = IF accepted THEN Put(inflight, DeleteUserOf(Query, list[1][i]))
                   ELSE inflight
    /\ UNCHANGED <<screen, searchParams, status, genreId, sort, list, pageTotal,
                   isLoading, toast, nav>>
    /\ last' = Step(IF accepted THEN "delete" ELSE "deleteCancelled", "", "", NoData)
handleDeleteUser(i, accepted) ==
    /\ UserStep
    /\ screen = "users"
    /\ ~isLoading
    /\ i \in 1..Len(list[1])
    /\ UserRole(list[1][i]) # "admin"
    /\ inflight' = IF accepted THEN Put(inflight, DeleteUserOf(Query, list[1][i]))
                   ELSE inflight
    /\ UNCHANGED <<screen, searchParams, status, genreId, sort, list, pageTotal,
                   isLoading, toast, nav>>
    /\ last' = Step(IF accepted THEN "delete" ELSE "deleteCancelled", "", "", NoData)

NextUsers ==
    \/ \E i \in 1..limit : \E accepted \in BOOLEAN : handleDeleteUser(i, accepted)
    \/ \E r \in BagToSet(inflight) : ignored(r)
    \/ \E r \in BagToSet(inflight) : deleteDone(r)
    \/ \E r \in BagToSet(inflight) : deleteFailed(r)
    \/ \E r \in BagToSet(inflight) : \E data \in DataChoices(r.q) : fetchDone(r, data)
    \/ \E r \in BagToSet(inflight) : fetchFailed(r)

----------------------------------------------------------------------------
(* Specifications *)

RestIdle == em = EmIdle /\ df = DfIdle /\ du = DuIdle /\ ta = TaIdle

Init == ListInit /\ nav = NavOff /\ pg = PgIdle /\ lg = LgIdle /\ dg = DgIdle /\ RestIdle
Spec == Init /\ [][Next]_vars

\* the drama list with the browser history followed
InitNav ==
    /\ ListInit /\ screen = "dramas" /\ nav = NavOn
    /\ pg = PgIdle /\ lg = LgIdle /\ dg = DgIdle /\ RestIdle
NextNav ==
    \/ \E query \in Searches : handleSearch(query)
    \/ \E value \in Statuses : handleFilterChange("status", value)
    \/ \E value \in GenreIds : handleFilterChange("genre", value)
    \/ \E value \in Sorts : handleFilterChange("sort", value)
    \/ clickNext
    \/ clickPrevious
    \/ popstate
    \/ \E r \in BagToSet(inflight) : \E data \in DataChoices(r.q) : fetchDone(r, data)
    \/ \E r \in BagToSet(inflight) : fetchFailed(r)
SpecNav == InitNav /\ [][NextNav]_vars

ListIdle ==
    /\ screen = "genres"
    /\ searchParams = [page |-> NoParam, search |-> "", status |-> "", genre |-> "", sort |-> ""]
    /\ status = "" /\ genreId = "" /\ sort = "popular"
    /\ list = Some(<<>>) /\ pageTotal = Some(0) /\ isLoading = TRUE
    /\ inflight = EmptyBag /\ toast = "" /\ last = Step("mount", "", "", NoData)
    /\ events = 0
    /\ nav = NavOff

InitPaging == ListIdle /\ PgInit /\ lg = LgIdle /\ dg = DgIdle /\ RestIdle
NextPaging == PgRender
SpecPaging == InitPaging /\ [][NextPaging]_vars

\* episode management of one drama
InitEpisodes ==
    /\ ListIdle /\ pg = PgIdle /\ lg = LgIdle /\ dg = DgIdle
    /\ em \in { Mounted(srv) : srv \in Servers }
    /\ df = DfIdle /\ du = DuIdle /\ ta = TaIdle
SpecEpisodes == InitEpisodes /\ [][NextEpisodes]_vars

\* the drama form, for a new drama or an existing one
InitDramaForm ==
    /\ ListIdle /\ pg = PgIdle /\ lg = LgIdle /\ dg = DgIdle /\ em = EmIdle
    /\ df \in { DfMounted(edit) : edit \in BOOLEAN }
    /\ du = DuIdle /\ ta = TaIdle
SpecDramaForm == InitDramaForm /\ [][NextDramaForm]_vars

\* an episode's duration, typed as any whole number of minutes
InitDuration ==
    /\ ListIdle /\ pg = PgIdle /\ lg = LgIdle /\ dg = DgIdle
    /\ em = EmIdle /\ df = DfIdle /\ ta = TaIdle
    /\ du \in { DuTyped(m) : m \in 0..MaxMinutes }
SpecDuration == InitDuration /\ [][NextDuration]_vars

\* the actor typeahead against a server holding some actors per search text
InitTypeahead ==
    /\ ListIdle /\ pg = PgIdle /\ lg = LgIdle /\ dg = DgIdle
    /\ em = EmIdle /\ df = DfIdle /\ du = DuIdle
    /\ ta \in { TaMounted(srv) : srv \in ActorServers }
SpecTypeahead == InitTypeahead /\ [][NextTypeahead]_vars

\* the users screen with its rows' delete buttons
InitUsers ==
    /\ ListInit /\ screen = "users" /\ nav = NavOff
    /\ pg = PgIdle /\ lg = LgIdle /\ dg = DgIdle /\ RestIdle
SpecUsers == InitUsers /\ [][NextUsers]_vars

\* a list screen opened with any text as the page parameter
UrlPageTexts == {NoParam, "", "abc", "0", "-1", "1", "2"}
InitUrl ==
    /\ screen \in Screens
    /\ searchParams \in { [page |-> p, search |-> "", status |-> "", genre |-> "",
                           sort |-> ""] : p \in UrlPageTexts }
    /\ status = "" /\ genreId = "" /\ sort = "popular"
    /\ list = Some(<<>>) /\ pageTotal = Some(0) /\ isLoading = TRUE
    /\ inflight = SetToBag({FetchOf(Query)})
    /\ toast = "" /\ last = Step("mount", "", "", NoData) /\ events = 0
    /\ nav = NavOff
    /\ pg = PgIdle /\ lg = LgIdle /\ dg = DgIdle /\ RestIdle
SpecUrl == InitUrl /\ [][Next]_vars

\* the forms of the console, one route on screen
LgAway == [LgIdle EXCEPT !.path = "/"]
ListAway ==
    /\ screen = "genres"
    /\ searchParams = [page |-> NoParam, search |-> "", status |-> "", genre |-> "", sort |-> ""]
    /\ status = "" /\ genreId = "" /\ sort = "popular"
    /\ list = Some(<<>>) /\ pageTotal = Some(0) /\ isLoading = FALSE
    /\ inflight = EmptyBag /\ toast = "" /\ last = Step("mount", "", "", NoData)
    /\ events = MaxEvents
    /\ nav = NavOff
InitForms ==
    /\ pg = PgIdle /\ du = DuIdle /\ ta = TaIdle
    /\ \/ /\ ListAway /\ lg = LgIdle /\ dg = DgIdle /\ em = EmIdle /\ df = DfIdle
       \/ /\ ListInit /\ screen \in {"genres", "actors"} /\ nav = NavOff
          /\ lg = LgAway /\ dg = DgIdle /\ em = EmIdle /\ df = DfIdle
       \/ /\ ListAway /\ lg = LgAway /\ dg = DgIdle /\ df = DfIdle
          /\ em \in { Mounted(srv) : srv \in Servers }
       \/ /\ ListAway /\ lg = LgAway /\ dg = DgIdle /\ em = EmIdle
          /\ df \in { DfMounted(edit) : edit \in BOOLEAN }
NextForms ==
    \/ NextLogin
    \/ NextDialog
    \/ NextEpisodes
    \/ NextDramaForm
SpecForms == InitForms /\ [][NextForms]_vars

InitLogin == ListIdle /\ pg = PgIdle /\ lg = LgIdle /\ dg = DgIdle /\ RestIdle
SpecLogin == InitLogin /\ [][NextLogin]_vars

\* the genres and actors screens with their form dialog
InitDialog ==
    /\ ListInit /\ screen \in {"genres", "actors"} /\ nav = NavOff
    /\ pg = PgIdle /\ lg = LgIdle /\ dg = DgIdle /\ RestIdle
SpecDialog == InitDialog /\ [][NextDialog]_vars

----------------------------------------------------------------------------
(* Properties of the pagination arithmetic *)

\* C1: with page size 10, for every total >= 0 and page >= 1, total_pages is
\* ceil(total / 10) and Next is disabled iff page >= total_pages or total = 0;
\* a total of 34 gives 4 pages, Next enabled on page 1 and disabled on page 4.
C1_PaginationArithmetic ==
    pg.done =>
        /\ pg.totalPages * limit >= pg.total
        /\ (pg.totalPages - 1) * limit < pg.total
        /\ pg.nextDisabled <=> (pg.page >= pg.totalPages \/ pg.total = 0)
        /\ pg.total = 34 => pg.totalPages = 4 /\ (pg.nextDisabled <=> pg.page >= 4)

C1_Witness ==
    pg.done /\ pg.total = 34 /\ pg.page = 1 /\ pg.totalPages = 4 /\ ~pg.nextDisabled

----------------------------------------------------------------------------
(* Properties of the list screens *)

RowsShown == IF list = Undefined THEN <<>> ELSE list[1]

\* the rows on display answer query q
Answers(q) == \A i \in 1..Len(RowsShown) : RowsShown[i].q = q

\* C2: a list response is applied only if it belongs to the most recently
\* issued fetch, so once every fetch has resolved (none of them failed, no
\* notification was shown) the rows on display answer the current page,
\* search text and filters.
C2_OnlyLatestApplied ==
    (last.op = "fetchDone" /\ FetchesInFlight = {} /\ toast = "") => Answers(Query)

\* C3: list fetches are never deduplicated, cancelled or aborted: a fetch
\* leaves the requests in flight only when its own response is handled, a
\* trigger adds a request even when an equal one is in flight, the list and the
\* total change only when a response arrives, and they become what the screen
\* stores from that response, whichever request it answers.
C3_Step ==
    /\ last'.op = "fetchDone" =>
          \E r \in FetchesInFlight :
              /\ inflight' = Take(inflight, r)
              /\ last'.data \in DataChoices(r.q)
              /\ list' = Store(last'.data).list
              /\ pageTotal' = Store(last'.data).pageTotal
    /\ (list' # list \/ pageTotal' # pageTotal) => last'.op = "fetchDone"
    /\ \A r \in FetchesInFlight :
          CopiesIn(r, inflight') < CopiesIn(r, inflight) =>
              /\ last'.op \in {"fetchDone", "fetchFailed", "ignored"}
              /\ CopiesIn(r, inflight') = CopiesIn(r, inflight) - 1
              /\ BagCardinality(inflight') = BagCardinality(inflight) - 1
    /\ (last'.op \in {"search", "filter", "next", "previous"} /\ Query' # Query) =>
          CopiesIn(FetchOf(Query'), inflight') = CopiesIn(FetchOf(Query'), inflight) + 1

C3_LastArrivalWins == [][C3_Step]_vars

\* two fetches overlapped and the older request's response arrived last: its
\* rows are on display although they answer another query than the current one
C3_Witness ==
    /\ last.op = "fetchDone"
    /\ FetchesInFlight = {}
    /\ Len(RowsShown) > 0
    /\ ~Answers(Query)

\* C4: every change of the page, the search text or a filter value triggers
\* exactly one fetch, carrying the new values, also after earlier fetches failed.
C4_Watched ==
    IF screen = "dramas"
    THEN <<page, search, status, genreId, sort>>
    ELSE <<page, search>>

C4_Sent ==
    [page |-> page, search |-> search,
     status |-> IF screen = "dramas" THEN status ELSE "",
     genre |-> IF screen = "dramas" THEN genreId ELSE "",
     sort |-> IF screen = "dramas" THEN sort ELSE ""]

C4_Step ==
    C4_Watched' # C4_Watched =>
        /\ inflight' = Put(inflight, [kind |-> "fetch", q |-> C4_Sent'])
        /\ BagCardinality(inflight') = BagCardinality(inflight) + 1
        /\ isLoading'

C4_ChangeTriggersOneFetch == [][C4_Step]_vars

\* the first fetch failed, then a filter changed: one fetch, for the new
\* values, is in flight
C4_Witness ==
    /\ toast = "Failed to fetch dramas"
    /\ last.op = "filter"
    /\ events = 1
    /\ inflight = SetToBag({[kind |-> "fetch", q |-> C4_Sent]})
    /\ isLoading

\* C5: submitting the search form sets the URL page to 1 and the search text
\* to the submitted text, whatever the page was before.
C5_Step ==
    last'.op = "search" =>
        /\ searchParams'.page = "1"
        /\ page' = 1
        /\ searchParams'.search = last'.value
        /\ search' = last'.value

C5_SearchResetsPage == [][C5_Step]_vars

C5_Witness ==
    /\ last.op = "search"
    /\ last.from = "2"
    /\ last.value = "a"
    /\ page = 1
    /\ search = "a"

\* C6: on the drama list, changing one of the status, genre or sort filters
\* sets the page to 1, sets that filter to the new value and leaves the search
\* text and the other two filters unchanged.
C6_Step ==
    last'.op = "filter" =>
        /\ screen = "dramas"
        /\ page' = 1 /\ searchParams'.page = "1"
        /\ search' = search
        /\ status' = IF last'.key = "status" THEN last'.value ELSE status
        /\ genreId' = IF last'.key = "genre" THEN last'.value ELSE genreId
        /\ sort' = IF last'.key = "sort" THEN last'.value ELSE sort
        /\ searchParams'.status = status'
        /\ searchParams'.genre = genreId'
        /\ searchParams'.sort = sort'

C6_FilterChange == [][C6_Step]_vars

C6_Witness ==
    /\ last.op = "filter"
    /\ last.key = "sort" /\ last.value = "rating"
    /\ last.from = "2"
    /\ page = 1
    /\ search = "a"
    /\ status = "ongoing"
    /\ sort = "rating"

\* C7: every list screen tolerates both response shapes: a bare array of n
\* items displays those n rows with total n, and {items, total} displays
\* items with the reported total.
C7_BothShapes ==
    last.op = "fetchDone" =>
        /\ last.data.shape = "array" =>
              /\ list = Some(last.data.rows)
              /\ screen # "dramas" => pageTotal = Some(Len(last.data.rows))
        /\ (last.data.shape = "object" /\ last.data.items # Undefined
                /\ last.data.total # Undefined) =>
              /\ list = last.data.items
              /\ screen # "dramas" => pageTotal = last.data.total

\* C8: a fetch that fails leaves the displayed list and the total as they
\* were and shows an error notification.
C8_Step ==
    last'.op = "fetchFailed" =>
        /\ list' = list
        /\ pageTotal' = pageTotal
        /\ toast' = "Failed to fetch " \o screen

C8_FailedFetchKeepsList == [][C8_Step]_vars

C8_Witness ==
    /\ last.op = "fetchFailed"
    /\ Len(RowsShown) > 0
    /\ toast = "Failed to fetch " \o screen

\* C9: every fetch that completes, successfully or not, sets the loading flag
\* to false; once no fetch is in flight the loading flag is false.
C9_LoadingCleared ==
    /\ last.op \in {"fetchDone", "fetchFailed"} => ~isLoading
    /\ FetchesInFlight = {} => ~isLoading

C9_Witness ==
    /\ last.op = "fetchFailed"
    /\ events = 2
    /\ InFlight = 0
    /\ ~isLoading

\* C10: the loading indicator is shown whenever at least one list fetch is in
\* flight, also while several fetches overlap and one has already completed.
C10_LoadingWhileInFlight ==
    (FetchesInFlight # {} /\ ~Crashed) => isLoading

\* C11: on the genres, actors and users screens a successful fetch replaces
\* the displayed list and the total together: every step either leaves both as
\* they were or sets both from the one response it handles, so no state
\* between steps shows a new list with the previous total or the reverse.
C11_Step ==
    screen \in {"genres", "actors", "users"} =>
        IF last'.op = "fetchDone"
        THEN <<list', pageTotal'>> = <<Store(last'.data).list, Store(last'.data).pageTotal>>
        ELSE <<list', pageTotal'>> = <<list, pageTotal>>

C11_ListAndTotalTogether == [][C11_Step]_vars

\* a response replaced an earlier response's list and total by its own
C11_Witness ==
    /\ screen \in {"genres", "actors", "users"}
    /\ last.op = "fetchDone"
    /\ events > 0
    /\ Len(RowsShown) = FewRows
    /\ pageTotal = Some(limit + 1)

\* C12: on the drama list, in every reachable state, also after back/forward
\* navigation or any other change of the URL, the status, genre and sort
\* values the next fetch uses equal the values encoded in the query string
\* (an absent sort is the default, popular).
C12_FiltersFollowUrl ==
    screen = "dramas" =>
        /\ Query.status = OrString(searchParams.status, "")
        /\ Query.genre = OrString(searchParams.genre, "")
        /\ Query.sort = OrString(searchParams.sort, "popular")

----------------------------------------------------------------------------
(* Properties of the login screen *)

\* C13: a login attempt whose authenticated user has a role other than admin
\* never calls login on the auth store and never navigates away from /login;
\* so after any sequence of attempts the store's user is unset or an admin.
C13_Step ==
    /\ (lg'.last.op = "resolved" /\ lg'.last.resp.success
            /\ lg'.last.resp.role # "admin") =>
          /\ lg'.store = lg.store
          /\ lg'.path = lg.path
    /\ lg'.store.user = Undefined \/ lg'.store.user[1].role = "admin"
    /\ lg'.path = "/" => lg'.store.user # Undefined

C13_AdminOnly == [][C13_Step]_vars

C13_Witness ==
    /\ lg.last.op = "resolved"
    /\ lg.last.resp.success /\ lg.last.resp.role = "user"
    /\ lg.toast = "Access denied. Admin only."
    /\ lg.store.user = Undefined
    /\ lg.path = "/login"

\* C14: every login attempt whose response reports success=false or an HTTP
\* error ends with an error notification, the auth store left as it was
\* (unauthenticated) and the form's loading flag false.
C14_Step ==
    (lg'.last.op \in {"resolved", "rejected"}
        /\ lg' # lg
        /\ (lg'.last.resp.http = "error" \/ ~lg'.last.resp.success)) =>
          /\ lg'.toast \in {"Invalid credentials", "Failed to login"}
          /\ lg'.toast = IF lg'.last.resp.message = "" THEN "Failed to login"
                         ELSE lg'.last.resp.message
          /\ lg'.store = lg.store
          /\ lg.store.user = Undefined => lg'.store.user = Undefined
          /\ ~lg'.isLoading

C14_FailedLoginNotified == [][C14_Step]_vars

\* a response with success=false in an HTTP 200 envelope was notified
C14_Witness ==
    /\ lg.last.op = "rejected"
    /\ lg.last.resp.http = "ok" /\ ~lg.last.resp.success
    /\ lg.toast = "Invalid credentials"
    /\ lg.store.user = Undefined
    /\ ~lg.isLoading
    /\ lg.path = "/login"

----------------------------------------------------------------------------
(* Properties of the form dialogs *)

\* C15: for the genre, actor and episode form dialogs, a create/update
\* request that fails leaves the dialog open with the entered values intact
\* and shows a failure notification; one that succeeds closes the dialog and
\* triggers a refetch of the owning list, so that once that refetch has been
\* answered the list on display is the saved entity's list, as the server has it.
C15_Step ==
    /\ last'.op = "saveFailed" =>
          /\ dg' = dg
          /\ toast' = "Operation failed"
    /\ last'.op = "saveDone" =>
          /\ ~dg'.open
          /\ isLoading'
          /\ \E r \in BagToSet(inflight) :
                /\ r.kind \in {"create", "update"}
                /\ inflight' = Put(Take(inflight, r), FetchOf(Query))
    /\ (em'.last.op = "saveFailed" /\ em' # em) =>
          /\ em'.isDialogOpen = em.isDialogOpen
          /\ em'.form = em.form
          /\ em'.toast \in {"Failed to create episode", "Failed to update episode"}
    /\ em'.last.op = "saved" => ~em'.isDialogOpen
    /\ (em'.savedIn # Undefined /\ em'.last.op = "episodes"
            /\ em'.inflight = EmptyBag) =>
          /\ em'.selectedSeason = em'.savedIn
          /\ em'.list.season = em'.savedIn[1]
          /\ em'.list.episodes = em'.srv.episodes[em'.savedIn[1]]

C15_DialogOutcome == [][C15_Step]_vars

\* the values a form's schema accepts: required texts, minimum lengths,
\* numeric ranges, URL format, enum membership
C16_Number(t, low) == CoerceNumber(t) # Undefined /\ CoerceNumber(t)[1] >= low
C16_OptionalUrl(t) == t = <<>> \/ IsUrl(t)
C16_LoginOk(email, password) == IsEmail(email) /\ password # <<>>
C16_DialogOk(values) ==
    /\ values.name # <<>>
    /\ screen = "actors" => C16_OptionalUrl(values.extra)
C16_EpisodeOk(values) ==
    /\ values.title # <<>>
    /\ C16_Number(values.episode_number, 1)
    /\ C16_Number(values.duration, 1)
    /\ IsUrl(values.video_url)
    /\ C16_OptionalUrl(values.thumbnail_url)
C16_DramaOk(values) ==
    /\ values.title # <<>>
    /\ Len(values.synopsis) >= 10
    /\ C16_OptionalUrl(values.poster_url)
    /\ C16_Number(values.year, 1900) /\ CoerceNumber(values.year)[1] <= ThisYear + 5
    /\ C16_Number(values.total_seasons, 1)
    /\ values.status \in {"ongoing", "completed"}
    /\ values.genre_ids # {}

C16_Sent(kinds, before, after) ==
    \E r \in BagToSet(after) :
        r.kind \in kinds /\ CopiesIn(r, after) > CopiesIn(r, before)

\* C16: in every form (login, genre, actor, episode, drama) submitting values
\* that violate the form's schema issues no network request and leaves the
\* dialog or form open; a create, update or login request is issued only for
\* values that pass validation.
C16_Step ==
    /\ (lg'.attempts > lg.attempts
            /\ ~C16_LoginOk(lg'.last.email, lg'.last.password)) =>
          lg'.pending = lg.pending /\ lg'.path = "/login" /\ lg'.errors # {}
    /\ lg'.pending > lg.pending => C16_LoginOk(lg'.last.email, lg'.last.password)
    /\ (last'.op \in {"save", "invalid"} /\ events' > events /\ ~C16_DialogOk(dg'.form)) =>
          inflight' = inflight /\ dg'.open /\ dg'.errors # {}
    /\ C16_Sent({"create", "update"}, inflight, inflight') => C16_DialogOk(dg'.form)
    /\ (em'.last.op \in {"save", "invalid"} /\ em'.events > em.events
            /\ ~C16_EpisodeOk(em'.form)) =>
          em'.inflight = em.inflight /\ em'.isDialogOpen /\ em'.errors # {}
    /\ C16_Sent({"saveEpisode"}, em.inflight, em'.inflight) => C16_EpisodeOk(em'.form)
    /\ (df'.last.op \in {"save", "invalid"} /\ df'.events > df.events
            /\ ~C16_DramaOk(df'.form)) =>
          df'.inflight = df.inflight /\ df'.path = df.path /\ df'.errors # {}
    /\ C16_Sent({"saveDrama"}, df.inflight, df'.inflight) => C16_DramaOk(df'.form)

C16_InvalidSendsNothing == [][C16_Step]_vars

\* an episode form with a wrong video URL was submitted: nothing was sent
C16_Witness ==
    /\ em.last.op = "invalid"
    /\ em.errors = {"video_url"}
    /\ em.isDialogOpen
    /\ BagCardinality(em.inflight) = 0

\* ---- Properties of failed writes ----

C17_FailureToasts ==
    { "Failed to delete genre", "Failed to delete actor", "Failed to delete user",
      "Failed to delete drama", "Operation failed",
      "Failed to create episode", "Failed to update episode",
      "Failed to create season", "Failed to delete season",
      "Failed to create drama", "Failed to update drama" }

\* C17: every failed create, update or delete request (genre, actor, user,
\* drama, season, episode) is caught by its handler: a failure notification
\* is shown, no error escapes the handler, and the data on display is what
\* it was before the request failed.
C17_Step ==
    /\ (last'.op \in {"deleteFailed", "saveFailed"} /\ inflight' # inflight) =>
          /\ toast' \in C17_FailureToasts
          /\ list' = list /\ pageTotal' = pageTotal
    /\ (em'.last.op \in {"saveFailed", "deleteEpisodeFailed", "createSeasonFailed",
                         "deleteSeasonFailed"} /\ em'.inflight # em.inflight) =>
          /\ em'.toast \in C17_FailureToasts
          /\ ~em'.escaped
          /\ em'.seasons = em.seasons /\ em'.list = em.list
    /\ (df'.last.op = "saveFailed" /\ df'.inflight # df.inflight) =>
          /\ df'.toast \in C17_FailureToasts
          /\ df'.form = df.form /\ df'.selectedActors = df.selectedActors

C17_FailuresCaught == [][C17_Step]_vars

\* ---- Properties of the drama form's cast ----

C18_NoDuplicate(cast) ==
    \A i, j \in 1..Len(cast) : cast[i].actor_id = cast[j].actor_id => i = j

C18_Step ==
    (df'.last.op = "addRejected" /\ df'.events > df.events) =>
        /\ df.currentActorId \in ActorIdsOf(df.selectedActors)
        /\ df'.selectedActors = df.selectedActors
        /\ df'.toast = "Actor already added"

\* C18: in the drama form the selected cast, starting duplicate-free (empty,
\* or the cast the server holds), never holds two entries with the same
\* actor_id whatever actors are added and removed; adding an actor that is
\* already selected leaves the list as it was and shows an error notification.
C18_CastHasNoDuplicates ==
    /\ [](C18_NoDuplicate(df.selectedActors))
    /\ [][C18_Step]_vars

\* Add was pressed for an actor the loaded drama already had in its cast
C18_Witness ==
    /\ df.last.op = "addRejected"
    /\ df.last.id \in ActorIdsOf(df.selectedActors)
    /\ df.toast = "Actor already added"

C19_CastStep == df'.last.op \in {"add", "addRejected", "addMissing", "remove"}
                    /\ df'.events > df.events

\* C19: in the drama form adding or removing a cast member issues no network
\* request; an added entry carries the actor and the role selected at that
\* moment and keeps them; on submit the request's actors are exactly the
\* selected cast, entry by entry.
C19_Step ==
    /\ C19_CastStep => df'.inflight = df.inflight
    /\ (df'.last.op = "add" /\ df'.events > df.events) =>
          df'.selectedActors =
              Append(df.selectedActors, Cast(df.currentActorId, df.currentActorRole))
    /\ (df'.last.op = "remove" /\ df'.events > df.events) =>
          /\ Elements(df'.selectedActors) \subseteq Elements(df.selectedActors)
          /\ Len(df'.selectedActors) = Len(df.selectedActors) - 1
    /\ (~C19_CastStep /\ df'.last.op # "drama") => df'.selectedActors = df.selectedActors
    /\ (df'.last.op = "save" /\ df'.events > df.events) =>
          /\ df'.selectedActors = df.selectedActors
          /\ \E r \in BagToSet(df'.inflight) :
                /\ r.kind = "saveDrama"
                /\ r.actors = df.selectedActors
                /\ df'.inflight = Put(df.inflight, r)

C19_CastIsLocalUntilSubmit == [][C19_Step]_vars

\* a new drama was submitted with a cast member added in the support role
C19_Witness ==
    /\ df.last.op = "save"
    /\ ~df.edit
    /\ df.selectedActors # <<>>
    /\ df.selectedActors[1].role = "support"
    /\ \E r \in BagToSet(df.inflight) :
          r.kind = "saveDrama" /\ r.actors = df.selectedActors

\* ---- Properties of the episode duration ----

\* C20: every whole number of minutes m >= 1 entered as an episode's
\* duration is stored as m * 60 seconds, and the stored value is shown as m
\* again both in the episode list and in the edit form (90 -> 5400 -> 90).
C20_MinutesRoundTrip ==
    /\ (du.stage = "stored") = (du.stage # "idle" /\ du.stage # "typed" /\ du.minutes >= 1)
    /\ du.stored # Undefined =>
          /\ du.stored = Some(du.minutes * 60)
          /\ du.minutes = 90 => du.stored = Some(5400)
    /\ du.cell # Undefined => du.cell = Some(du.minutes)
    /\ du.form # Undefined =>
          /\ du.form[1] = du.typed
          /\ CoerceNumber(du.form[1]) = Some(du.minutes)

\* 90 minutes were stored as 5400 seconds and are shown as 90 in both places
C20_Witness ==
    /\ du.minutes = 90
    /\ du.typed = <<"9", "0">>
    /\ du.stored = Some(5400)
    /\ du.cell = Some(90)
    /\ du.form = Some(<<"9", "0">>)

\* ---- Properties of the actor typeahead ----

C21_Step ==
    ta'.sent > ta.sent =>
        /\ ta.quiet >= DebounceMs
        /\ ta'.sent = 1
        /\ \E r \in BagToSet(ta'.inflight) :
              /\ ta'.inflight = Put(ta.inflight, r)
              /\ r.search = ta.actorSearch
              /\ r.page = ta.actorPage

\* C21: in the actor typeahead a request is sent only once the search text
\* and the page have stayed unchanged for 300 ms; each change cancels the
\* timer that was pending, so at most one timer is pending, and after a
\* burst of changes exactly one request is sent, for the final text and page.
C21_Debounced ==
    /\ [](Cardinality(ta.timers) <= 1)
    /\ [](ta.last.op # "idle" =>
            /\ ta.quiet < DebounceMs => ta.sent = 0
            /\ ta.timers = {} => ta.sent = 1)
    /\ [][C21_Step]_vars

\* three changes in a row ended with the text "ab": one request was sent,
\* the only one since the form was opened, and it carries "ab"
C21_Witness ==
    /\ ta.events = 3
    /\ ta.actorSearch = "ab"
    /\ ta.issued = 1
    /\ ta.last = TaStep("fetchActors", "ab", 1, 0)
    /\ ta.inflight = SetToBag({[search |-> "ab", page |-> 1, held |-> 0]})

\* ---- Properties of the typeahead's has-more flag ----

\* C27: after each successful actor fetch the has-more flag is true exactly
\* when the available list now holds fewer actors than the total the
\* server reported with that response.
C27_Step ==
    (ta'.last.op = "actors" /\ ta'.inflight # ta.inflight) =>
        (ta'.hasMoreActors <=> Len(ta'.availableActors) < ta'.last.total)

C27_HasMoreByHeld == [][C27_Step]_vars

\* ---- Properties of the drama form's initial load ----

C22_InFlight(kind) == \E r \in BagToSet(df.inflight) : r.kind = kind

\* C22: when the drama edit form opens, the genres request and the
\* drama-detail request are issued together: while the genres request is
\* unanswered the drama request is in flight as well; and the form is
\* populated from the drama only when neither is still in flight.
C22_LoadedJointly ==
    /\ (df.edit /\ df.path # "/dramas" /\ C22_InFlight("genres")) => C22_InFlight("drama")
    /\ df.last.op = "drama" => ~C22_InFlight("genres") /\ ~C22_InFlight("drama")

\* ---- Properties of the drama list's pagination ----

C23_Step ==
    (screen = "dramas" /\ last'.op = "next" /\ events' > events) =>
        /\ Len(list[1]) >= 10
        /\ page' = page + 1

\* C23: on the drama list the Next button is disabled exactly when the
\* list on display holds fewer than 10 items, whatever total the screen
\* holds; a step to the next page is taken only from a list of 10 items.
C23_NextByLength ==
    /\ [](screen = "dramas" =>
            /\ list # Undefined
            /\ NextDisabled <=> Len(list[1]) < 10)
    /\ [][C23_Step]_vars

\* the drama list moved to the next page from a full page of 10 items,
\* with no total ever stored
C23_Witness ==
    /\ screen = "dramas"
    /\ last.op = "next"
    /\ Len(list[1]) = 10
    /\ pageTotal = Some(0)

\* ---- Properties of the page after a delete ----

C24_Max(a, b) == IF a >= b THEN a ELSE b

\* C24: on the genres, actors and users screens, when a delete has
\* succeeded and the refetch it started is answered with no other request
\* in flight, the current page is at most max(1, ceil(total / 10)), given
\* that it was so for the total on display when the row was deleted.
C24_Step ==
    (/\ screen \in {"genres", "actors", "users"}
     /\ last.op = "deleteDone"
     /\ pageTotal # Undefined
     /\ page <= C24_Max(1, (pageTotal[1] + 9) \div 10)
     /\ last'.op = "fetchDone"
     /\ inflight' = EmptyBag
     /\ pageTotal' # Undefined) =>
        page' <= C24_Max(1, (pageTotal'[1] + 9) \div 10)

C24_PageWithinRange == [][C24_Step]_vars

\* ---- Properties of the seasons of a drama ----

\* C25: in episode management, whenever no request is in flight, the
\* selected season is unset or is the id of one of the loaded seasons.
C25_SelectedSeasonLoaded ==
    (em.inflight = EmptyBag /\ em.selectedSeason # Undefined) =>
        em.selectedSeason[1] \in SeasonIdsOf(em.seasons)

\* ---- Properties of an episode's stored duration ----

\* C26: an episode's edit dialog opened and submitted with the duration
\* field as the dialog showed it sends the duration the episode had, in
\* seconds, whatever that stored duration is.
C26_Step ==
    (/\ em.last.op = "openEdit"
     /\ em'.last.op = "save"
     /\ em'.events > em.events
     /\ em'.form.duration = em.form.duration) =>
        \E r \in BagToSet(em'.inflight) :
            /\ em'.inflight = Put(em.inflight, r)
            /\ r.kind = "saveEpisode"
            /\ r.id = em.editingEpisode[1].id
            /\ r.seconds = em.editingEpisode[1].duration

C26_DurationKept == [][C26_Step]_vars

\* ---- Properties of season numbers ----

C28_Numbers(seasons) == { seasons[i].season_number : i \in 1..Len(seasons) }

\* C28: with every earlier creation and deletion answered and reloaded (no
\* request in flight, the loaded seasons are the server's), the create
\* request of a new season carries a season_number that no season of the
\* drama has.
C28_Step ==
    (/\ em.inflight = EmptyBag
     /\ em.seasons = em.srv.seasons
     /\ em'.last.op = "createSeason"
     /\ em'.events > em.events) =>
        \E r \in BagToSet(em'.inflight) :
            /\ r.kind = "createSeason"
            /\ r.number \notin C28_Numbers(em.srv.seasons)

C28_FreshSeasonNumber == [][C28_Step]_vars

\* ---- Properties of the users screen ----

C29_Step ==
    /\ (screen = "users" /\ C16_Sent({"delete"}, inflight, inflight')) =>
          /\ last'.op = "delete"
          /\ ~isLoading
          /\ \E i \in 1..Len(list[1]) :
                /\ list[1][i].i # 1
                /\ inflight' = Put(inflight, [kind |-> "delete", q |-> Query,
                                               user |-> list[1][i]])
    /\ (last'.op = "deleteCancelled" /\ events' > events) => inflight' = inflight

\* C29: on the users screen a delete request is sent only for a row on
\* display whose role is not admin (the administrator is the first row of a
\* page), and only when the confirm prompt was accepted; a declined prompt
\* sends nothing.
C29_NoAdminDelete == [][C29_Step]_vars

\* a page with the administrator and other users is shown, and the delete
\* of the second row was confirmed and sent
C29_Witness ==
    /\ screen = "users"
    /\ last.op = "delete"
    /\ list # Undefined
    /\ Len(list[1]) >= 2
    /\ UserRole(list[1][1]) = "admin"
    /\ [kind |-> "delete", q |-> Query, user |-> list[1][2]] \in BagToSet(inflight)

\* ---- Properties of the page parameter ----

\* C30: on every list screen the page derived from the URL is at least 1
\* whatever the text of the page parameter is: absent, empty, non-numeric,
\* zero and negative texts give page 1, and no request carries a page
\* below 1.
C30_PageAtLeastOne ==
    /\ page >= 1
    /\ searchParams.page \in {NoParam, "", "abc", "0", "-1"} => page = 1
    /\ \A r \in BagToSet(inflight) : r.q.page >= 1

====
